---- MODULE Spec2Model ----
(***************************************************************************)
(* Versioned list cache, catalog API and TMDb import of the cinema          *)
(* application.                                                            *)
(*                                                                         *)
(* The cache store is the Django cache: one map from string keys to        *)
(* (value, expiry).  core/cache_utils.py keeps one counter per resource    *)
(* prefix under "<prefix>:version" and builds list keys that embed it.     *)
(* The list views of films/views.py and authors/views.py read through the  *)
(* cache; the mutating handlers write the relational store and then bump   *)
(* the counter.                                                            *)
(*                                                                         *)
(* Nine specifications share the definitions below:                        *)
(*   SpecSeq   one client calling get_version / increment_version as whole *)
(*             calls, with the store free to drop the version key;         *)
(*   Spec      concurrent requests, one step per cache or store access;    *)
(*   SpecApi   the mutating REST handlers as whole requests over the       *)
(*             relational store and the cache;                             *)
(*   SpecList  the list handlers between mutating requests, while time     *)
(*             passes and the cache store drops keys;                      *)
(*   SpecOutage  the handlers while a cache call cannot reach the store;   *)
(*   SpecAccess  the film and author views for staff and other actors;     *)
(*   SpecImport  runs of the import_tmdb command over films/services.py,   *)
(*             one call of import_movie per step;                          *)
(*   SpecCrew  such runs on one movie whose credits change between the     *)
(*             calls, with the admin's archive and rating requests;        *)
(*   SpecWait  such runs with one step per request to the external API,    *)
(*             which may never be answered.                                *)
(***************************************************************************)
EXTENDS Integers, Sequences, FiniteSets, TLC

VARIABLES
    cache,          \* the cache store: key -> [value, expires]
    now,            \* the clock, in seconds
    users,          \* CustomUser rows: id -> [is_staff, role, username,
                    \*                         first_name, last_name]
    spectators,     \* ids of the users that have a spectator_profile
    authors,        \* Author rows: id -> [user, bio, date_of_birth, tmdb_id,
                    \*                     source, photo]
    films,          \* Film rows: id -> [title, description, release_date,
                    \*                   status, evaluation, source, tmdb_id,
                    \*                   poster, authors]
    filmReviews,    \* FilmReview rows: <<film, user>> -> rating
    authorReviews,  \* AuthorReview rows: <<author, user>> -> rating
    nextId,         \* the next primary key of each table
    last,           \* the last completed request and what it did
    nreq,           \* number of requests handled so far
    pc,             \* concurrent requests: where each one is
    loc,            \* concurrent requests: the locals of each one
    rev,            \* history: number of committed writes per prefix
    doneRev,        \* history: newest write whose handler has returned
    incrCalls,      \* history: completed increment_version calls per prefix
    dropped,        \* history: the store has dropped the prefix's version key
    hist,           \* SpecSeq: the calls made so far, in order
    storage,        \* the file storage: name -> [content, owner]
    run             \* the import command: where the run is and what it did

vars == <<cache, now, users, spectators, authors, films, filmReviews,
          authorReviews, nextId, last, nreq, pc, loc, rev, doneRev, incrCalls,
          dropped, hist, storage, run>>

dbVars == <<users, spectators, authors, films, filmReviews, authorReviews, nextId>>
procVars == <<pc, loc, rev, doneRev, incrCalls, dropped>>
importVars == <<storage, run>>

(***************************************************************************)
(* Program constants                                                       *)
(***************************************************************************)
FILM_CACHE_PREFIX == "films:list"
AUTHOR_CACHE_PREFIX == "authors:list"
AUTHOR_REVIEW_CACHE_PREFIX == "author_reviews:list"
SPECTATOR_CACHE_PREFIX == "spectators:list"

Prefixes == {FILM_CACHE_PREFIX, AUTHOR_CACHE_PREFIX,
             AUTHOR_REVIEW_CACHE_PREFIX, SPECTATOR_CACHE_PREFIX}

\* 60 * 15 seconds
CACHE_TIMEOUT == 60 * 15

(***************************************************************************)
(* Bounds of the model                                                     *)
(***************************************************************************)
\* SpecSeq: number of calls in a history
MaxHist == 5
\* the clock advances in steps of TickStep seconds up to MaxTime
TickStep == 450
MaxTime == 1350
\* Spec: number of concurrent requests, and requests started in a run
NumProcs == 2
MaxStarted == 4
\* SpecApi: number of requests handled in a run
MaxRequests == 3

(***************************************************************************)
(* The cache store (django.core.cache): get / add / set / incr             *)
(***************************************************************************)
\* a key stored without a timeout of its own; the store may still drop it
NoExpiry == -1

CacheLive(c, k, t) ==
    /\ k \in DOMAIN c
    /\ (c[k].expires = NoExpiry \/ c[k].expires > t)

\* cache.get(key, default); a hit is exactly a live key (no stored value is None)
CacheGet(c, k, t, default) ==
    IF CacheLive(c, k, t) THEN c[k].value ELSE default

\* cache.set(key, value, timeout)
CacheSet(c, k, v, exp) ==
    [x \in DOMAIN c \cup {k} |-> IF x = k THEN [value |-> v, expires |-> exp] ELSE c[x]]

\* cache.add(key, value): stores only when the key is not there
CacheAdd(c, k, v, exp, t) ==
    IF CacheLive(c, k, t) THEN c ELSE CacheSet(c, k, v, exp)

\* cache.incr(key): one atomic step of the store; ValueError on a missing key
CacheIncrRaises(c, k, t) == ~CacheLive(c, k, t)

CacheIncr(c, k, t) ==
    [c EXCEPT ![k] = [value |-> c[k].value + 1, expires |-> c[k].expires]]

\* the store drops a key: expiry of a key stored with the default timeout,
\* culling, a restart of the cache server
CacheDrop(c, k) == [x \in DOMAIN c \ {k} |-> c[x]]

(***************************************************************************)
(* core/cache_utils.py                                                     *)
(***************************************************************************)
VersionKey(prefix) == prefix \o ":version"

\* get_version reading with a default instead of get_or_set: nothing is stored
GetVersionWithoutSet(c, prefix, t) ==
    [ret |-> CacheGet(c, VersionKey(prefix), t, 1), cache |-> c]

\* get_version as one call: the value returned and the store afterwards.
\* cache.get_or_set(key, 1) is get, then add on a miss, then get again.
GetVersion(c, prefix, t) ==
    LET k == VersionKey(prefix)
        c1 == CacheAdd(c, k, 1, NoExpiry, t)
    IN  IF CacheLive(c, k, t)
        THEN [ret |-> CacheGet(c, k, t, 1), cache |-> c]
        ELSE [ret |-> CacheGet(c1, k, t, 1), cache |-> c1]

\* increment_version as one call: the store afterwards
IncrementVersion(c, prefix, t) ==
    LET k == VersionKey(prefix)
    IN  IF CacheIncrRaises(c, k, t)
        THEN CacheSet(c, k, 1, NoExpiry)
        ELSE CacheIncr(c, k, t)

\* the actor of a request: 0 is the anonymous user, otherwise the user id
Anon == 0

UserPart(actor) == IF actor # Anon THEN "u" \o ToString(actor) ELSE "anon"

\* two query strings of one unknown parameter without a value; their MD5
\* digests are equal
QueryA == "TEXTCOLLBYfGiJUETHQ4hAcKSMd5zYpgqf1YRDhkmxHkhPWptrkoyz28wnI9V0aHeAuaKnak"
QueryB == "TEXTCOLLBYfGiJUETHQ4hEcKSMd5zYpgqf1YRDhkmxHkhPWptrkoyz28wnI9V0aHeAuaKnak"

\* the query strings of the model and their MD5 hex digests
QueryStrings == {"", "status=published", "page=2", QueryA, QueryB}

Md5Hex(q) ==
    CASE q = "" -> "d41d8cd98f00b204e9800998ecf8427e"
      [] q = "status=published" -> "6f1b2fd3976c35a3916c97b85ae604e5"
      [] q = "status=archived" -> "5109648b01718948cc14b11ee1e079d5"
      [] q = "page=2" -> "46589c7afd19c01453073936936c2a84"
      [] q = "source=TMDB" -> "392823e14e21c9d475c6c77e9dada13b"
      [] q = QueryA -> "faad49866e9498fc1719f5289e7a0269"
      [] q = QueryB -> "faad49866e9498fc1719f5289e7a0269"

\* the key for a version already read
ListCacheKey(prefix, version, actor, q) ==
    prefix \o ":v" \o ToString(version) \o ":" \o UserPart(actor) \o ":q" \o Md5Hex(q)

\* build_list_cache_key as one call: the key and the store afterwards
BuildListCacheKey(c, prefix, actor, q, t) ==
    LET gv == GetVersion(c, prefix, t)
    IN  [key |-> ListCacheKey(prefix, gv.ret, actor, q), cache |-> gv.cache]

(***************************************************************************)
(* Values shared by the initial states                                     *)
(***************************************************************************)
EmptyMap == [x \in {} |-> 0]

NoRequest == [op |-> "none", actor |-> Anon, target |-> 0, q |-> "", status |-> 0,
              code |-> "", prefix |-> "", effects |-> <<>>, key |-> "",
              hit |-> FALSE, payload |-> <<>>, queries |-> 0, failAt |-> ""]

Procs == 1..NumProcs

IdleLoc == [op |-> "none", prefix |-> "", actor |-> Anon, q |-> "", target |-> 0,
            version |-> 0, key |-> "", response |-> <<>>, needRev |-> 0,
            myRev |-> 0]

ZeroPerPrefix == [p \in Prefixes |-> 0]

CacheInit ==
    /\ cache = EmptyMap
    /\ now = 0

\* no import command has run and the file storage is empty
NoCall == [rec |-> <<>>, ext |-> <<>>, result |-> "", id |-> 0, http |-> <<>>]

NoRun == [state |-> "idle", imports |-> 0, limit |-> 0, fetch |-> "",
          fetched |-> 0, pos |-> 0,
          count |-> 0, returned |-> 0, summary |-> -1, call |-> NoCall]

ImportInit ==
    /\ storage = EmptyMap
    /\ run = NoRun

ProcInit ==
    /\ pc = [i \in Procs |-> "idle"]
    /\ loc = [i \in Procs |-> IdleLoc]
    /\ rev = ZeroPerPrefix
    /\ doneRev = ZeroPerPrefix
    /\ incrCalls = ZeroPerPrefix
    /\ dropped = [p \in Prefixes |-> FALSE]

EmptyDb ==
    /\ users = EmptyMap
    /\ spectators = {}
    /\ authors = EmptyMap
    /\ films = EmptyMap
    /\ filmReviews = EmptyMap
    /\ authorReviews = EmptyMap
    /\ nextId = [users |-> 1, authors |-> 1, films |-> 1]

(***************************************************************************)
(* The relational store and the list queries                               *)
(***************************************************************************)
\* users of the seed data: an administrator, a spectator, and the users of
\* two authors (authenticated users with neither staff rights nor a
\* spectator profile)
AdminUser == 1
SpectatorUser == 2
AuthorUser == 3
SecondAuthorUser == 4

\* a CustomUser row
UserRow(isStaff, role, username, firstName, lastName) ==
    [is_staff |-> isStaff, role |-> role, username |-> username,
     first_name |-> firstName, last_name |-> lastName]

\* an Author row written through the API or the admin: no external id, no
\* photo, no date of birth
AdminAuthorRow(u, bio) ==
    [user |-> u, bio |-> bio, date_of_birth |-> "", tmdb_id |-> 0,
     source |-> "ADMIN", photo |-> ""]

\* a Film row written through the API or the admin: no external id, no poster
AdminFilmRow(title, status, authorIds) ==
    [title |-> title, description |-> "", release_date |-> "2020-01-01",
     status |-> status, evaluation |-> "G", source |-> "ADMIN", tmdb_id |-> 0,
     poster |-> "", authors |-> authorIds]

\* the seed rows: the first author has directed the one film, the second
\* author has no film
SeedDb ==
    /\ users = (AdminUser :> UserRow(TRUE, "admin", "admin", "Ada", "")
                @@ SpectatorUser :> UserRow(FALSE, "spectator", "sam", "Sam", "")
                @@ AuthorUser :> UserRow(FALSE, "author", "ann", "Ann", "")
                @@ SecondAuthorUser :> UserRow(FALSE, "author", "ben", "Ben", ""))
    /\ spectators = {SpectatorUser}
    /\ authors = (1 :> AdminAuthorRow(AuthorUser, "")
                  @@ 2 :> AdminAuthorRow(SecondAuthorUser, ""))
    /\ films = (1 :> AdminFilmRow("A", "published", {1}))
    /\ filmReviews = EmptyMap
    /\ authorReviews = EmptyMap
    /\ nextId = [users |-> 5, authors |-> 3, films |-> 2]

RECURSIVE SumOf(_, _)
SumOf(f, keys) ==
    IF keys = {} THEN 0
    ELSE LET k == CHOOSE x \in keys : TRUE IN f[k] + SumOf(f, keys \ {k})

\* Avg("reviews__rating") as the pair <<sum, count>>
AvgRating(reviews, keys) == <<SumOf(reviews, keys), Cardinality(keys)>>

\* AuthorNestedSerializer
AuthorNested(us, as, a) ==
    [id |-> a, user_id |-> as[a].user, first_name |-> us[as[a].user].first_name,
     bio |-> as[a].bio]

\* FilmSerializer, with the avg_rating annotation of the queryset
FilmRepr(us, as, fs, frs, f) ==
    LET keys == {k \in DOMAIN frs : k[1] = f}
    IN  [id |-> f, title |-> fs[f].title, status |-> fs[f].status,
         authors |-> {AuthorNested(us, as, a) : a \in fs[f].authors \cap DOMAIN as},
         reviews |-> {[user |-> k[2], rating |-> frs[k]] : k \in keys},
         average_rating |-> AvgRating(frs, keys)]

\* DjangoFilterBackend on filterset_fields: "status=published" keeps the
\* published films, the empty query string keeps all
FilmMatches(film, q) == q = "status=published" => film.status = "published"

\* super().list() of FilmViewSet: the rows in "-created_at" order, which is a
\* function of the ids, so the page is given as id -> representation
FilmListQuery(us, as, fs, frs, q) ==
    [f \in {x \in DOMAIN fs : FilmMatches(fs[x], q)} |-> FilmRepr(us, as, fs, frs, f)]

\* FilmNestedSerializer
FilmNested(fs, f) == [id |-> f, title |-> fs[f].title, status |-> fs[f].status]

\* AuthorSerializer, with the average_rating and reviews_count annotations
AuthorRepr(us, as, fs, ars, a) ==
    LET keys == {k \in DOMAIN ars : k[1] = a}
    IN  [id |-> a, user_id |-> as[a].user,
         first_name |-> us[as[a].user].first_name, bio |-> as[a].bio,
         films |-> {FilmNested(fs, f) : f \in {x \in DOMAIN fs : a \in fs[x].authors}},
         average_rating |-> AvgRating(ars, keys),
         reviews_count |-> Cardinality(keys)]

\* super().list() of AuthorViewSet; filterset_fields is ["source"] only, so
\* the query strings of the model filter nothing
AuthorListQuery(us, as, fs, ars, q) ==
    [a \in DOMAIN as |-> AuthorRepr(us, as, fs, ars, a)]

\* AuthorReviewSerializer; super().list() of AuthorReviewViewSet
AuthorReviewListQuery(us, as, ars, q) ==
    [k \in DOMAIN ars |->
        [author |-> k[1], author_name |-> us[as[k[1]].user].first_name,
         user |-> k[2], rating |-> ars[k]]]

\* the live list query of a prefix on the current rows
LiveList(prefix, q) ==
    CASE prefix = FILM_CACHE_PREFIX ->
            FilmListQuery(users, authors, films, filmReviews, q)
      [] prefix = AUTHOR_CACHE_PREFIX ->
            AuthorListQuery(users, authors, films, authorReviews, q)
      [] prefix = AUTHOR_REVIEW_CACHE_PREFIX ->
            AuthorReviewListQuery(users, authors, authorReviews, q)


(***************************************************************************)
(* SpecSeq: get_version and increment_version called one after the other   *)
(* on a store that starts empty and may drop a version key between calls.  *)
(***************************************************************************)
SeqPrefixes == {FILM_CACHE_PREFIX, AUTHOR_CACHE_PREFIX}

Called(op, prefix, ret) == [op |-> op, prefix |-> prefix, ret |-> ret]

InitSeq ==
    /\ CacheInit
    /\ ProcInit
    /\ ImportInit
    /\ EmptyDb
    /\ last = NoRequest
    /\ nreq = 0
    /\ hist = <<>>

SeqGetVersion(prefix) ==
    /\ Len(hist) < MaxHist
    /\ LET gv == GetVersion(cache, prefix, now)
       IN  /\ cache' = gv.cache
           /\ hist' = Append(hist, Called("get_version", prefix, gv.ret))
    /\ UNCHANGED <<now, dbVars, last, nreq, procVars, importVars>>

SeqIncrementVersion(prefix) ==
    /\ Len(hist) < MaxHist
    /\ cache' = IncrementVersion(cache, prefix, now)
    /\ hist' = Append(hist, Called("increment_version", prefix, 0))
    /\ UNCHANGED <<now, dbVars, last, nreq, procVars, importVars>>

SeqDropVersionKey(prefix) ==
    /\ Len(hist) < MaxHist
    /\ VersionKey(prefix) \in DOMAIN cache
    /\ cache' = CacheDrop(cache, VersionKey(prefix))
    /\ hist' = Append(hist, Called("drop", prefix, 0))
    /\ UNCHANGED <<now, dbVars, last, nreq, procVars, importVars>>

NextSeq ==
    \E prefix \in SeqPrefixes :
        \/ SeqGetVersion(prefix)
        \/ SeqIncrementVersion(prefix)
        \/ SeqDropVersionKey(prefix)

SpecSeq == InitSeq /\ [][NextSeq]_vars

(***************************************************************************)
(* Spec: concurrent requests.  Each request is a worker running its        *)
(* handler; one step is one access to the cache store or one write of the  *)
(* relational store.  The store may drop any key at any time, and the      *)
(* clock may advance.                                                      *)
(***************************************************************************)
\* what a list view stores under a list key: the response data, and as
\* history how it was made: the revision of the rows it was computed from,
\* the prefix, version, actor and query string of its key, the time it was
\* stored, and whether the prefix's version had already moved on by then
Entry(data, made) == [data |-> data, made |-> made]

Made(r, prefix, version, actor, q, at, orphan) ==
    [rev |-> r, prefix |-> prefix, version |-> version, actor |-> actor,
     q |-> q, at |-> at, orphan |-> orphan]

\* the version get_version would return now
CurrentVersion(c, prefix, t) == CacheGet(c, VersionKey(prefix), t, 1)

Max(a, b) == IF a >= b THEN a ELSE b

Init ==
    /\ CacheInit
    /\ ProcInit
    /\ ImportInit
    /\ SeedDb
    /\ last = NoRequest
    /\ nreq = 0
    /\ hist = <<>>

\* FilmViewSet.list / AuthorViewSet.list: the request arrives
StartList(i, prefix, actor, q) ==
    /\ pc[i] = "idle"
    /\ nreq < MaxStarted
    /\ nreq' = nreq + 1
    /\ pc' = [pc EXCEPT ![i] = "gv_get"]
    /\ loc' = [loc EXCEPT ![i] = [IdleLoc EXCEPT !.op = "list", !.prefix = prefix,
                                                 !.actor = actor, !.q = q]]
    /\ UNCHANGED <<cache, now, dbVars, last, rev, doneRev, incrCalls, dropped, hist, importVars>>

\* get_version returns v to build_list_cache_key, which builds the key
KeyBuilt(i, v) ==
    /\ pc' = [pc EXCEPT ![i] = "l_get"]
    /\ loc' = [loc EXCEPT ![i].version = v,
                          ![i].key = ListCacheKey(loc[i].prefix, v, loc[i].actor, loc[i].q),
                          ![i].needRev = doneRev[loc[i].prefix]]

\* get_or_set: the first cache.get of the version key
GvGet(i) ==
    /\ pc[i] = "gv_get"
    /\ LET k == VersionKey(loc[i].prefix)
       IN  IF CacheLive(cache, k, now)
           THEN KeyBuilt(i, CacheGet(cache, k, now, 1))
           ELSE /\ pc' = [pc EXCEPT ![i] = "gv_add"]
                /\ UNCHANGED loc
    /\ UNCHANGED <<cache, now, dbVars, last, nreq, rev, doneRev, incrCalls,
                   dropped, hist, importVars>>

\* get_or_set: cache.add(key, 1)
GvAdd(i) ==
    /\ pc[i] = "gv_add"
    /\ cache' = CacheAdd(cache, VersionKey(loc[i].prefix), 1, NoExpiry, now)
    /\ pc' = [pc EXCEPT ![i] = "gv_reget"]
    /\ UNCHANGED <<now, dbVars, last, nreq, loc, rev, doneRev, incrCalls,
                   dropped, hist, importVars>>

\* get_or_set: the second cache.get(key, default)
GvReget(i) ==
    /\ pc[i] = "gv_reget"
    /\ KeyBuilt(i, CacheGet(cache, VersionKey(loc[i].prefix), now, 1))
    /\ UNCHANGED <<cache, now, dbVars, last, nreq, rev, doneRev, incrCalls,
                   dropped, hist, importVars>>

\* cached = cache.get(cache_key); a hit returns Response(cached)
LGet(i) ==
    /\ pc[i] = "l_get"
    /\ IF CacheLive(cache, loc[i].key, now)
       THEN /\ pc' = [pc EXCEPT ![i] = "idle"]
            /\ loc' = [loc EXCEPT ![i] = IdleLoc]
       ELSE /\ pc' = [pc EXCEPT ![i] = "l_query"]
            /\ UNCHANGED loc
    /\ UNCHANGED <<cache, now, dbVars, last, nreq, rev, doneRev, incrCalls,
                   dropped, hist, importVars>>

\* response = super().list(request)
LQuery(i) ==
    /\ pc[i] = "l_query"
    /\ pc' = [pc EXCEPT ![i] = "l_set"]
    /\ loc' = [loc EXCEPT ![i].response = LiveList(loc[i].prefix, loc[i].q),
                          ![i].myRev = rev[loc[i].prefix]]
    /\ UNCHANGED <<cache, now, dbVars, last, nreq, rev, doneRev, incrCalls,
                   dropped, hist, importVars>>

\* cache.set(cache_key, response.data, timeout=CACHE_TIMEOUT); return response
LSet(i) ==
    /\ pc[i] = "l_set"
    /\ cache' = CacheSet(cache, loc[i].key,
                         Entry(loc[i].response,
                               Made(loc[i].myRev, loc[i].prefix, loc[i].version,
                                    loc[i].actor, loc[i].q, now,
                                    CurrentVersion(cache, loc[i].prefix, now) # loc[i].version)),
                         now + CACHE_TIMEOUT)
    /\ pc' = [pc EXCEPT ![i] = "idle"]
    /\ loc' = [loc EXCEPT ![i] = IdleLoc]
    /\ UNCHANGED <<now, dbVars, last, nreq, rev, doneRev, incrCalls,
                   dropped, hist, importVars>>

\* FilmViewSet.archive by an administrator: get_object finds the film
StartArchive(i, f) ==
    /\ pc[i] = "idle"
    /\ nreq < MaxStarted
    /\ f \in DOMAIN films
    /\ nreq' = nreq + 1
    /\ pc' = [pc EXCEPT ![i] = "w_save"]
    /\ loc' = [loc EXCEPT ![i] = [IdleLoc EXCEPT !.op = "films.archive",
                                                 !.prefix = FILM_CACHE_PREFIX,
                                                 !.actor = AdminUser, !.target = f]]
    /\ UNCHANGED <<cache, now, dbVars, last, rev, doneRev, incrCalls, dropped, hist, importVars>>

\* AuthorViewSet.update (PATCH bio) by an administrator
StartAuthorUpdate(i, a, bio) ==
    /\ pc[i] = "idle"
    /\ nreq < MaxStarted
    /\ a \in DOMAIN authors
    /\ nreq' = nreq + 1
    /\ pc' = [pc EXCEPT ![i] = "w_save"]
    /\ loc' = [loc EXCEPT ![i] = [IdleLoc EXCEPT !.op = "authors.update",
                                                 !.prefix = AUTHOR_CACHE_PREFIX,
                                                 !.actor = AdminUser, !.target = a,
                                                 !.q = bio]]
    /\ UNCHANGED <<cache, now, dbVars, last, rev, doneRev, incrCalls, dropped, hist, importVars>>

\* film.save() / serializer.save(): the write is committed
WSave(i) ==
    /\ pc[i] = "w_save"
    /\ IF loc[i].op = "films.archive"
       THEN /\ films' = [films EXCEPT ![loc[i].target].status = "archived"]
            /\ UNCHANGED authors
       ELSE /\ authors' = [authors EXCEPT ![loc[i].target].bio = loc[i].q]
            /\ UNCHANGED films
    /\ rev' = [rev EXCEPT ![loc[i].prefix] = rev[loc[i].prefix] + 1]
    /\ loc' = [loc EXCEPT ![i].myRev = rev[loc[i].prefix] + 1]
    /\ pc' = [pc EXCEPT ![i] = "iv_incr"]
    /\ UNCHANGED <<cache, now, users, spectators, filmReviews, authorReviews,
                   nextId, last, nreq, doneRev, incrCalls, dropped, hist, importVars>>

\* increment_version has returned and with it the handler
Invalidated(i) ==
    /\ pc' = [pc EXCEPT ![i] = "idle"]
    /\ loc' = [loc EXCEPT ![i] = IdleLoc]
    /\ incrCalls' = [incrCalls EXCEPT ![loc[i].prefix] = incrCalls[loc[i].prefix] + 1]
    /\ doneRev' = [doneRev EXCEPT ![loc[i].prefix] =
                        Max(doneRev[loc[i].prefix], loc[i].myRev)]

\* increment_version: cache.incr(key)
IvIncr(i) ==
    /\ pc[i] = "iv_incr"
    /\ LET k == VersionKey(loc[i].prefix)
       IN  IF CacheIncrRaises(cache, k, now)
           THEN /\ pc' = [pc EXCEPT ![i] = "iv_set"]
                /\ UNCHANGED <<cache, loc, incrCalls, doneRev>>
           ELSE /\ cache' = CacheIncr(cache, k, now)
                /\ Invalidated(i)
    /\ UNCHANGED <<now, dbVars, last, nreq, rev, dropped, hist, importVars>>

\* increment_version: except ValueError: cache.set(key, 1)
IvSet(i) ==
    /\ pc[i] = "iv_set"
    /\ cache' = CacheSet(cache, VersionKey(loc[i].prefix), 1, NoExpiry)
    /\ Invalidated(i)
    /\ UNCHANGED <<now, dbVars, last, nreq, rev, dropped, hist, importVars>>

\* the store drops a key
DropKey(k) ==
    /\ k \in DOMAIN cache
    /\ cache' = CacheDrop(cache, k)
    /\ dropped' = [p \in Prefixes |-> dropped[p] \/ k = VersionKey(p)]
    /\ UNCHANGED <<now, dbVars, last, nreq, pc, loc, rev, doneRev, incrCalls, hist, importVars>>

\* time passes
Tick ==
    /\ now + TickStep <= MaxTime
    /\ now' = now + TickStep
    /\ UNCHANGED <<cache, dbVars, last, nreq, procVars, hist, importVars>>

ListActors == {Anon}
ListQueries == {"", "status=published"}
Bios == {"", "x"}

Next ==
    \/ \E i \in Procs :
          \/ \E prefix \in SeqPrefixes, actor \in ListActors, q \in ListQueries :
                StartList(i, prefix, actor, q)
          \/ GvGet(i)
          \/ GvAdd(i)
          \/ GvReget(i)
          \/ LGet(i)
          \/ LQuery(i)
          \/ LSet(i)
          \/ \E f \in DOMAIN films : StartArchive(i, f)
          \/ \E a \in DOMAIN authors, bio \in Bios : StartAuthorUpdate(i, a, bio)
          \/ WSave(i)
          \/ IvIncr(i)
          \/ IvSet(i)
    \/ \E k \in DOMAIN cache : DropKey(k)

Spec == Init /\ [][Next]_vars


(***************************************************************************)
(* The REST handlers as whole requests (SpecApi, SpecList)                 *)
(***************************************************************************)
StaffOrAuthenticated(actor) == actor # Anon

\* rest_framework.permissions
IsAuthenticated(actor) == actor # Anon
IsStaff(actor) == actor # Anon /\ users[actor].is_staff
HasSpectatorProfile(actor) == actor \in spectators

\* the status of a request refused by a permission class
Refused(actor) == IF actor = Anon THEN 401 ELSE 403

\* what a handler does, in order: "write" is a write of the relational
\* store, a prefix is a call of increment_version with that prefix
Raise(status, code) == [status |-> status, code |-> code, effects |-> <<>>]
Done(status, effects) == [status |-> status, code |-> "", effects |-> effects]

\* FilmViewSet.perform_create
FilmPerformCreate == Done(201, <<"write", FILM_CACHE_PREFIX>>)

\* FilmViewSet.perform_update
FilmPerformUpdate == Done(200, <<"write", FILM_CACHE_PREFIX>>)

\* FilmViewSet.perform_destroy
FilmPerformDestroy == Done(204, <<"write", FILM_CACHE_PREFIX>>)

FilmArchiveWithoutInvalidation == Done(200, <<"write">>)

\* FilmViewSet.archive
FilmArchive == Done(200, <<"write", FILM_CACHE_PREFIX>>)

\* FilmReviewViewSet.perform_create
FilmReviewPerformCreate(actor) ==
    IF ~HasSpectatorProfile(actor)
    THEN Raise(403, "SPECTATOR_REQUIRED")
    ELSE Done(201, <<"write">>)

\* AuthorViewSet.perform_create
AuthorPerformCreate == Done(201, <<"write", AUTHOR_CACHE_PREFIX>>)

\* AuthorViewSet.perform_update with AuthorSerializer.update: the user row
\* is saved first when a user field is given, then the author row
AuthorPerformUpdate(userFieldGiven) ==
    IF userFieldGiven
    THEN Done(200, <<"write", "write", AUTHOR_CACHE_PREFIX>>)
    ELSE Done(200, <<"write", AUTHOR_CACHE_PREFIX>>)

\* AuthorViewSet.perform_destroy
AuthorPerformDestroy(hasFilms) ==
    IF hasFilms
    THEN Raise(409, "AUTHOR_HAS_FILMS")
    ELSE Done(204, <<"write", AUTHOR_CACHE_PREFIX>>)

\* AuthorReviewViewSet.perform_create
AuthorReviewPerformCreate(actor) ==
    IF ~HasSpectatorProfile(actor)
    THEN Raise(403, "SPECTATOR_REQUIRED")
    ELSE Done(201, <<"write", AUTHOR_REVIEW_CACHE_PREFIX>>)

\* AuthorReviewViewSet.perform_update
AuthorReviewPerformUpdate == Done(200, <<"write", AUTHOR_REVIEW_CACHE_PREFIX>>)

\* AuthorReviewViewSet.perform_destroy
AuthorReviewPerformDestroy == Done(204, <<"write", AUTHOR_REVIEW_CACHE_PREFIX>>)

\* SpectatorRegistrationView.perform_create; UserRegistrationSerializer.create
\* writes the user row and then the spectator row
SpectatorPerformCreate == Done(201, <<"write", "write", SPECTATOR_CACHE_PREFIX>>)

Writes(res) == \E n \in 1..Len(res.effects) : res.effects[n] = "write"

\* the store after the increment_version calls of a handler, in order
RECURSIVE Invalidate(_, _, _)
Invalidate(c, effects, t) ==
    IF effects = <<>> THEN c
    ELSE Invalidate(IF Head(effects) = "write" THEN c
                    ELSE IncrementVersion(c, Head(effects), t),
                    Tail(effects), t)

\* the request is answered: what the client and the history see of it
Answer(op, actor, target, prefix, res) ==
    /\ nreq' = nreq + 1
    /\ last' = [NoRequest EXCEPT !.op = op, !.actor = actor, !.target = target,
                                 !.prefix = prefix, !.status = res.status,
                                 !.code = res.code, !.effects = res.effects]
    /\ cache' = Invalidate(cache, res.effects, now)
    /\ UNCHANGED <<now, procVars, hist, importVars>>

Without(f, keys) == [x \in DOMAIN f \ keys |-> f[x]]

\* POST /films/ (FilmViewSet.create)
CreateFilm(actor, title, authorIds, valid) ==
    /\ nreq < MaxRequests
    /\ LET res == IF ~IsStaff(actor) THEN Raise(Refused(actor), "PERMISSION_DENIED")
                  ELSE IF ~valid \/ ~(authorIds \subseteq DOMAIN authors)
                       THEN Raise(400, "VALIDATION_ERROR")
                       ELSE FilmPerformCreate
       IN  /\ Answer("films.create", actor, nextId.films, FILM_CACHE_PREFIX, res)
           /\ IF Writes(res)
              THEN /\ films' = films @@ (nextId.films :>
                                  AdminFilmRow(title, "draft", authorIds))
                   /\ nextId' = [nextId EXCEPT !.films = nextId.films + 1]
              ELSE UNCHANGED <<films, nextId>>
    /\ UNCHANGED <<users, spectators, authors, filmReviews, authorReviews>>

\* PATCH /films/<f>/ (FilmViewSet.partial_update)
UpdateFilm(actor, f, title, valid) ==
    /\ nreq < MaxRequests
    /\ LET res == IF ~IsStaff(actor) THEN Raise(Refused(actor), "PERMISSION_DENIED")
                  ELSE IF f \notin DOMAIN films THEN Raise(404, "NOT_FOUND")
                  ELSE IF ~valid THEN Raise(400, "VALIDATION_ERROR")
                  ELSE FilmPerformUpdate
       IN  /\ Answer("films.update", actor, f, FILM_CACHE_PREFIX, res)
           /\ IF Writes(res)
              THEN films' = [films EXCEPT ![f].title = title]
              ELSE UNCHANGED films
    /\ UNCHANGED <<users, spectators, authors, filmReviews, authorReviews, nextId>>

\* DELETE /films/<f>/ (FilmViewSet.destroy); the reviews of the film go with it
DestroyFilm(actor, f) ==
    /\ nreq < MaxRequests
    /\ LET res == IF ~IsStaff(actor) THEN Raise(Refused(actor), "PERMISSION_DENIED")
                  ELSE IF f \notin DOMAIN films THEN Raise(404, "NOT_FOUND")
                  ELSE FilmPerformDestroy
       IN  /\ Answer("films.destroy", actor, f, FILM_CACHE_PREFIX, res)
           /\ IF Writes(res)
              THEN /\ films' = Without(films, {f})
                   /\ filmReviews' = Without(filmReviews,
                                             {k \in DOMAIN filmReviews : k[1] = f})
              ELSE UNCHANGED <<films, filmReviews>>
    /\ UNCHANGED <<users, spectators, authors, authorReviews, nextId>>

\* POST /films/<f>/archive/ (FilmViewSet.archive, IsAdminUser)
ArchiveFilm(actor, f) ==
    /\ nreq < MaxRequests
    /\ LET res == IF ~IsStaff(actor) THEN Raise(Refused(actor), "PERMISSION_DENIED")
                  ELSE IF f \notin DOMAIN films THEN Raise(404, "NOT_FOUND")
                  ELSE FilmArchive
       IN  /\ Answer("films.archive", actor, f, FILM_CACHE_PREFIX, res)
           /\ IF Writes(res)
              THEN films' = [films EXCEPT ![f].status = "archived"]
              ELSE UNCHANGED films
    /\ UNCHANGED <<users, spectators, authors, filmReviews, authorReviews, nextId>>

\* POST /film-reviews/ (FilmReviewViewSet.create, IsAuthenticatedOrReadOnly);
\* a second review of the same film by the same spectator breaks
\* unique_together
CreateFilmReview(actor, f, rating) ==
    /\ nreq < MaxRequests
    /\ LET res == IF ~IsAuthenticated(actor) THEN Raise(401, "NOT_AUTHENTICATED")
                  ELSE IF f \notin DOMAIN films THEN Raise(400, "VALIDATION_ERROR")
                  ELSE IF <<f, actor>> \in DOMAIN filmReviews /\ HasSpectatorProfile(actor)
                       THEN Raise(409, "DUPLICATE_RESOURCE")
                       ELSE FilmReviewPerformCreate(actor)
       IN  /\ Answer("film_reviews.create", actor, f, "", res)
           /\ IF Writes(res)
              THEN filmReviews' = filmReviews @@ (<<f, actor>> :> rating)
              ELSE UNCHANGED filmReviews
    /\ UNCHANGED <<users, spectators, authors, films, authorReviews, nextId>>

HasAuthorProfile(u) == \E a \in DOMAIN authors : authors[a].user = u

\* POST /authors/ (AuthorViewSet.create); Author.clean refuses the user of a
\* spectator on save
CreateAuthor(actor, u, bio) ==
    /\ nreq < MaxRequests
    /\ LET res == IF ~IsStaff(actor) THEN Raise(Refused(actor), "PERMISSION_DENIED")
                  ELSE IF u \notin DOMAIN users \/ HasAuthorProfile(u)
                       THEN Raise(400, "VALIDATION_ERROR")
                  ELSE IF users[u].role = "spectator" THEN Raise(400, "VALIDATION_ERROR")
                  ELSE AuthorPerformCreate
       IN  /\ Answer("authors.create", actor, nextId.authors, AUTHOR_CACHE_PREFIX, res)
           /\ IF Writes(res)
              THEN /\ authors' = authors @@ (nextId.authors :> AdminAuthorRow(u, bio))
                   /\ nextId' = [nextId EXCEPT !.authors = nextId.authors + 1]
              ELSE UNCHANGED <<authors, nextId>>
    /\ UNCHANGED <<users, spectators, films, filmReviews, authorReviews>>

\* the request leaves first_name out
NotGiven == "<not given>"

\* PATCH /authors/<a>/ (AuthorViewSet.partial_update, AuthorSerializer.update)
UpdateAuthor(actor, a, bio, firstName) ==
    /\ nreq < MaxRequests
    /\ LET res == IF ~IsStaff(actor) THEN Raise(Refused(actor), "PERMISSION_DENIED")
                  ELSE IF a \notin DOMAIN authors THEN Raise(404, "NOT_FOUND")
                  ELSE AuthorPerformUpdate(firstName # NotGiven)
       IN  /\ Answer("authors.update", actor, a, AUTHOR_CACHE_PREFIX, res)
           /\ IF Writes(res)
              THEN /\ authors' = [authors EXCEPT ![a].bio = bio]
                   /\ users' = IF firstName # NotGiven
                               THEN [users EXCEPT ![authors[a].user].first_name = firstName]
                               ELSE users
              ELSE UNCHANGED <<authors, users>>
    /\ UNCHANGED <<spectators, films, filmReviews, authorReviews, nextId>>

AuthorHasFilms(a) == \E f \in DOMAIN films : a \in films[f].authors

\* DELETE /authors/<a>/ (AuthorViewSet.destroy); the reviews of the author go
\* with it
DestroyAuthor(actor, a) ==
    /\ nreq < MaxRequests
    /\ LET res == IF ~IsStaff(actor) THEN Raise(Refused(actor), "PERMISSION_DENIED")
                  ELSE IF a \notin DOMAIN authors THEN Raise(404, "NOT_FOUND")
                  ELSE AuthorPerformDestroy(AuthorHasFilms(a))
       IN  /\ Answer("authors.destroy", actor, a, AUTHOR_CACHE_PREFIX, res)
           /\ IF Writes(res)
              THEN /\ authors' = Without(authors, {a})
                   /\ authorReviews' = Without(authorReviews,
                                               {k \in DOMAIN authorReviews : k[1] = a})
                   /\ films' = [f \in DOMAIN films |->
                                   [films[f] EXCEPT !.authors = @ \ {a}]]
              ELSE UNCHANGED <<authors, authorReviews, films>>
    /\ UNCHANGED <<users, spectators, filmReviews, nextId>>

\* POST /author-reviews/ (AuthorReviewViewSet.create)
CreateAuthorReview(actor, a, rating) ==
    /\ nreq < MaxRequests
    /\ LET res == IF ~IsAuthenticated(actor) THEN Raise(401, "NOT_AUTHENTICATED")
                  ELSE IF a \notin DOMAIN authors THEN Raise(400, "VALIDATION_ERROR")
                  ELSE IF <<a, actor>> \in DOMAIN authorReviews /\ HasSpectatorProfile(actor)
                       THEN Raise(409, "DUPLICATE_RESOURCE")
                       ELSE AuthorReviewPerformCreate(actor)
       IN  /\ Answer("author_reviews.create", actor, a, AUTHOR_REVIEW_CACHE_PREFIX, res)
           /\ IF Writes(res)
              THEN authorReviews' = authorReviews @@ (<<a, actor>> :> rating)
              ELSE UNCHANGED authorReviews
    /\ UNCHANGED <<users, spectators, authors, films, filmReviews, nextId>>

\* PATCH /author-reviews/<id>/ (AuthorReviewViewSet.partial_update)
UpdateAuthorReview(actor, k, rating) ==
    /\ nreq < MaxRequests
    /\ LET res == IF ~IsAuthenticated(actor) THEN Raise(401, "NOT_AUTHENTICATED")
                  ELSE IF k \notin DOMAIN authorReviews THEN Raise(404, "NOT_FOUND")
                  ELSE AuthorReviewPerformUpdate
       IN  /\ Answer("author_reviews.update", actor, k[1], AUTHOR_REVIEW_CACHE_PREFIX, res)
           /\ IF Writes(res)
              THEN authorReviews' = [authorReviews EXCEPT ![k] = rating]
              ELSE UNCHANGED authorReviews
    /\ UNCHANGED <<users, spectators, authors, films, filmReviews, nextId>>

\* DELETE /author-reviews/<id>/ (AuthorReviewViewSet.destroy)
DestroyAuthorReview(actor, k) ==
    /\ nreq < MaxRequests
    /\ LET res == IF ~IsAuthenticated(actor) THEN Raise(401, "NOT_AUTHENTICATED")
                  ELSE IF k \notin DOMAIN authorReviews THEN Raise(404, "NOT_FOUND")
                  ELSE AuthorReviewPerformDestroy
       IN  /\ Answer("author_reviews.destroy", actor, k[1], AUTHOR_REVIEW_CACHE_PREFIX, res)
           /\ IF Writes(res)
              THEN authorReviews' = Without(authorReviews, {k})
              ELSE UNCHANGED authorReviews
    /\ UNCHANGED <<users, spectators, authors, films, filmReviews, nextId>>

\* POST /register/ (SpectatorRegistrationView, AllowAny;
\* UserRegistrationSerializer.create makes the user and its spectator profile)
RegisterSpectator(actor, firstName, valid) ==
    /\ nreq < MaxRequests
    /\ LET res == IF ~valid THEN Raise(400, "VALIDATION_ERROR")
                  ELSE SpectatorPerformCreate
       IN  /\ Answer("spectators.register", actor, nextId.users, SPECTATOR_CACHE_PREFIX, res)
           /\ IF Writes(res)
              THEN /\ users' = users @@ (nextId.users :>
                                  UserRow(FALSE, "spectator", "ann2", firstName, ""))
                   /\ spectators' = spectators \cup {nextId.users}
                   /\ nextId' = [nextId EXCEPT !.users = nextId.users + 1]
              ELSE UNCHANGED <<users, spectators, nextId>>
    /\ UNCHANGED <<authors, films, filmReviews, authorReviews>>


ListResponseWithoutTimeout(c, prefix, actor, q, t) ==
    LET built == BuildListCacheKey(c, prefix, actor, q, t)
        response == LiveList(prefix, q)
    IN  IF CacheLive(built.cache, built.key, t)
        THEN [cache |-> built.cache, key |-> built.key, hit |-> TRUE,
              payload |-> built.cache[built.key].value.data, queries |-> 0]
        ELSE [cache |-> CacheSet(built.cache, built.key,
                                 Entry(response, Made(0, prefix,
                                       CurrentVersion(built.cache, prefix, t),
                                       actor, q, t, FALSE)),
                                 NoExpiry),
              key |-> built.key, hit |-> FALSE, payload |-> response, queries |-> 1]

\* FilmViewSet.list, AuthorViewSet.list and AuthorReviewViewSet.list as one
\* call: the store afterwards, the key, whether the payload came from the
\* store, the payload and the number of list queries run
ListResponse(c, prefix, actor, q, t) ==
    LET built == BuildListCacheKey(c, prefix, actor, q, t)
        response == LiveList(prefix, q)
    IN  IF CacheLive(built.cache, built.key, t)
        THEN [cache |-> built.cache, key |-> built.key, hit |-> TRUE,
              payload |-> built.cache[built.key].value.data, queries |-> 0]
        ELSE [cache |-> CacheSet(built.cache, built.key,
                                 Entry(response, Made(0, prefix,
                                       CurrentVersion(built.cache, prefix, t),
                                       actor, q, t, FALSE)),
                                 t + CACHE_TIMEOUT),
              key |-> built.key, hit |-> FALSE, payload |-> response, queries |-> 1]

\* GET /films/, GET /authors/, GET /author-reviews/: open to every actor
ListView(prefix, actor, q) ==
    /\ nreq < MaxRequests
    /\ LET r == ListResponse(cache, prefix, actor, q, now)
       IN  /\ cache' = r.cache
           /\ last' = [NoRequest EXCEPT !.op = "list", !.actor = actor, !.q = q,
                                        !.prefix = prefix, !.status = 200,
                                        !.key = r.key, !.hit = r.hit,
                                        !.payload = r.payload, !.queries = r.queries]
    /\ nreq' = nreq + 1
    /\ UNCHANGED <<now, dbVars, procVars, hist, importVars>>

(***************************************************************************)
(* SpecApi: mutating requests handled one after the other on the seeded    *)
(* store.                                                                  *)
(***************************************************************************)
Actors == {Anon, AdminUser, SpectatorUser}
Titles == {"B"}
FirstNames == {NotGiven, "Zoe"}
Ratings == {5}
FilmIds == {1, 2}
AuthorIds == {1, 2}
ReviewIds == {<<2, SpectatorUser>>}

InitApi ==
    /\ CacheInit
    /\ ProcInit
    /\ ImportInit
    /\ SeedDb
    /\ last = NoRequest
    /\ nreq = 0
    /\ hist = <<>>

NextApi ==
    \E actor \in Actors :
        \/ \E title \in Titles, valid \in BOOLEAN : CreateFilm(actor, title, {1}, valid)
        \/ \E f \in FilmIds, title \in Titles, valid \in BOOLEAN :
              UpdateFilm(actor, f, title, valid)
        \/ \E f \in FilmIds : DestroyFilm(actor, f)
        \/ \E f \in FilmIds : ArchiveFilm(actor, f)
        \/ \E f \in FilmIds, rating \in Ratings : CreateFilmReview(actor, f, rating)
        \/ \E u \in {SpectatorUser, AdminUser} : CreateAuthor(actor, u, "")
        \/ \E a \in AuthorIds, firstName \in FirstNames :
              UpdateAuthor(actor, a, "x", firstName)
        \/ \E a \in AuthorIds : DestroyAuthor(actor, a)
        \/ \E a \in AuthorIds, rating \in Ratings : CreateAuthorReview(actor, a, rating)
        \/ \E k \in ReviewIds, rating \in Ratings : UpdateAuthorReview(actor, k, rating)
        \/ \E k \in ReviewIds : DestroyAuthorReview(actor, k)
        \/ \E valid \in BOOLEAN : RegisterSpectator(actor, "Ann", valid)

SpecApi == InitApi /\ [][NextApi]_vars

(***************************************************************************)
(* SpecAccess: the handlers of the film and author views, unsafe and safe  *)
(* methods, for an anonymous, a staff and a spectator actor.               *)
(***************************************************************************)
NextAccess ==
    \E actor \in Actors :
        \/ \E title \in Titles : CreateFilm(actor, title, {1}, TRUE)
        \/ \E f \in FilmIds, title \in Titles : UpdateFilm(actor, f, title, TRUE)
        \/ \E f \in FilmIds : DestroyFilm(actor, f)
        \/ \E f \in FilmIds : ArchiveFilm(actor, f)
        \/ CreateAuthor(actor, AdminUser, "")
        \/ \E a \in AuthorIds : UpdateAuthor(actor, a, "x", NotGiven)
        \/ \E a \in AuthorIds : DestroyAuthor(actor, a)
        \/ \E prefix \in {FILM_CACHE_PREFIX, AUTHOR_CACHE_PREFIX} :
              ListView(prefix, actor, "")

SpecAccess == InitApi /\ [][NextAccess]_vars

(***************************************************************************)
(* SpecList: list requests between mutating requests, while time passes    *)
(* and the cache store drops keys.                                         *)
(***************************************************************************)
\* the list requests of the model: <<prefix, actor, query string>>
ListRequests ==
    ({FILM_CACHE_PREFIX} \X {Anon, SpectatorUser} \X {"", QueryA, QueryB})
    \cup ({AUTHOR_CACHE_PREFIX} \X {Anon} \X {""})
    \cup ({AUTHOR_REVIEW_CACHE_PREFIX} \X {SpectatorUser} \X {""})

\* time passes between two requests
ListTick ==
    /\ nreq < MaxRequests
    /\ Tick

\* the store drops a key between two requests
ListDropKey(k) ==
    /\ nreq < MaxRequests
    /\ DropKey(k)

NextList ==
    \/ \E r \in ListRequests : ListView(r[1], r[2], r[3])
    \/ ArchiveFilm(AdminUser, 1)
    \/ CreateFilmReview(SpectatorUser, 1, 5)
    \/ UpdateAuthor(AdminUser, 1, "x", "Zoe")
    \/ CreateAuthorReview(SpectatorUser, 1, 5)
    \/ \E k \in DOMAIN cache : ListDropKey(k)
    \/ ListTick

SpecList == InitApi /\ [][NextList]_vars

(***************************************************************************)
(* The TMDb import: films/services.py and the import_tmdb command.         *)
(* What the external API answers is an input of each call.  A JSON field   *)
(* that is absent, null, empty or zero is falsy in the code; the model     *)
(* writes 0 for such an id and "" for such a string.                       *)
(***************************************************************************)
\* an entry of "results" of /movie/popular
Movie(id, title, releaseDate, overview, posterPath) ==
    [id |-> id, title |-> title, release_date |-> releaseDate,
     overview |-> overview, poster_path |-> posterPath]

\* a crew entry without the "job" field
NoJob == "<no job>"

\* an entry of "crew" of /movie/<id>/credits
Member(job, id, name, profilePath) ==
    [job |-> job, id |-> id, name |-> name, profile_path |-> profilePath]

\* the answer of /movie/<id>/credits: ok is FALSE when requests raises
Credits(ok, crew) == [ok |-> ok, crew |-> crew]

\* the answer of /person/<id>: ok is FALSE when requests raises
Details(ok, birthday, biography, profilePath) ==
    [ok |-> ok, birthday |-> birthday, biography |-> biography,
     profile_path |-> profilePath]

\* how an image download ends: status 200, another status, an exception of
\* requests, or status 200 and an exception of the storage on saving
Downloads == {"ok", "not200", "transport", "storage"}

\* name.split(maxsplit=1) on the names of the model
SplitName(name) ==
    CASE name = "Ann Lee" -> <<"Ann", "Lee">>
      [] name = "Ann Ray" -> <<"Ann", "Ray">>
      [] name = "Bo Ray" -> <<"Bo", "Ray">>
      [] name = "Cher" -> <<"Cher">>
      [] name = "" -> <<>>

\* django.utils.text.slugify on the titles and names of the model
Slugify(text) ==
    CASE text = "Dune" -> "dune"
      [] text = "Dune Two" -> "dune-two"
      [] text = "Soon" -> "soon"
      [] text = "A" -> "a"
      [] text = "B" -> "b"
      [] text = "Ann" -> "ann"
      [] text = "Bo" -> "bo"
      [] text = "Lee" -> "lee"
      [] text = "Ray" -> "ray"
      [] text = "Cher" -> "cher"
      [] text = "tmdb_7" -> "tmdb_7"
      [] text = "tmdb_8" -> "tmdb_8"
      [] text = "" -> ""

\* datetime.strptime(birthday, "%Y-%m-%d").date(), None ("") on ValueError
ParseBirthday(text) ==
    CASE text = "1970-01-01" -> "1970-01-01"
      [] text = "1980-02-02" -> "1980-02-02"
      [] OTHER -> ""

\* DateField.to_python on release_date: a string that is no date raises
\* ValidationError when the Film is saved
IsDate(text) == text \in {"2021-09-15", "2024-03-01", "2020-01-01"}

\* bio[:1000]; the long biography of the model has 1001 characters
Bio1000(bio) == IF bio = "bio of 1001 characters" THEN "bio of 1000 characters" ELSE bio

\* Storage.get_available_name: the name itself when it is free, else the
\* name with a suffix that makes it free
AvailableName(st, name) ==
    IF name \notin DOMAIN st THEN name
    ELSE LET k == CHOOSE n \in 1..(Cardinality(DOMAIN st) + 1) :
                     /\ (name \o "_" \o ToString(n)) \notin DOMAIN st
                     /\ \A j \in 1..(n - 1) : (name \o "_" \o ToString(j)) \in DOMAIN st
         IN  name \o "_" \o ToString(k)

\* the filename of a poster and of an author photo, under upload_to
PosterName(title) == "film_posters/poster_" \o Slugify(title) \o ".jpg"

PhotoName(user) ==
    LET first == Slugify(user.first_name)
        lastn == Slugify(user.last_name)
    IN  "author_photos/author_"
        \o (IF first # "" /\ lastn # "" THEN first \o "_" \o lastn
            ELSE IF first # "" \/ lastn # ""
                 THEN (IF first # "" THEN first ELSE lastn)
                 ELSE Slugify(user.username))
        \o ".jpg"

\* the rows the import reads and writes, as one value
Rows(us, as, fs, ids) == [users |-> us, authors |-> as, films |-> fs, nextId |-> ids]

\* FieldFile.delete(save=False): the file leaves the storage
DeleteFile(st, name) == [n \in DOMAIN st \ {name} |-> st[n]]

ReplaceAssetDeleteFirst(st, current, filename, content, owner, outcome) ==
    LET st1 == IF current # "" THEN DeleteFile(st, current) ELSE st
        name == AvailableName(st1, filename)
    IN  CASE outcome = "ok" ->
                [storage |-> st1 @@ (name :> [content |-> content, owner |-> owner]),
                 name |-> name, saved |-> TRUE]
          [] OTHER -> [storage |-> st1, name |-> current, saved |-> FALSE]

\* the body of _download_and_save_poster and _download_and_save_author_photo:
\* the storage afterwards, the name the owner's row refers to, and whether
\* the row was saved.  An exception of requests or of the storage is caught.
ReplaceAsset(st, current, filename, content, owner, outcome) ==
    LET st1 == IF current # "" THEN DeleteFile(st, current) ELSE st
        name == AvailableName(st1, filename)
    IN  CASE outcome = "ok" ->
                [storage |-> st1 @@ (name :> [content |-> content, owner |-> owner]),
                 name |-> name, saved |-> TRUE]
          [] outcome = "storage" ->
                [storage |-> st1, name |-> current, saved |-> FALSE]
          [] OTHER -> [storage |-> st, name |-> current, saved |-> FALSE]

\* _download_and_save_poster
DownloadAndSavePoster(db, st, f, posterPath, tmdbId, outcome) ==
    LET r == ReplaceAsset(st, db.films[f].poster, PosterName(db.films[f].title),
                          posterPath, <<"film", tmdbId>>, outcome)
    IN  [db |-> IF r.saved THEN [db EXCEPT !.films[f].poster = r.name] ELSE db,
         storage |-> r.storage]

\* _download_and_save_author_photo
DownloadAndSaveAuthorPhoto(db, st, a, profilePath, tmdbId, outcome) ==
    LET r == ReplaceAsset(st, db.authors[a].photo,
                          PhotoName(db.users[db.authors[a].user]),
                          profilePath, <<"author", tmdbId>>, outcome)
    IN  [db |-> IF r.saved THEN [db EXCEPT !.authors[a].photo = r.name] ELSE db,
         storage |-> r.storage]

\* what a step of the import returns: "none" is None, "raised" an exception
\* that is not caught, else the kind of row with its id; http lists the
\* requests sent to the external API, in order
Returned(result, id, db, st, http) ==
    [result |-> result, id |-> id, db |-> db, storage |-> st, http |-> http]

\* the requests of an earlier step before those of r
After(http, r) == [r EXCEPT !.http = http \o @]

UsersNamed(db, username) == {u \in DOMAIN db.users : db.users[u].username = username}

AuthorsOf(db, u) == {a \in DOMAIN db.authors : db.authors[a].user = u}

\* the row a get_or_create or update_or_create works on: the row found by
\* the lookup, else the id the created row gets
RowFor(found, nextFree) == IF found # {} THEN CHOOSE x \in found : TRUE ELSE nextFree

\* User.objects.get_or_create(username=username, defaults=...): an existing
\* user is returned as it is
GetOrCreateUser(db, u, username, name) ==
    IF u \in DOMAIN db.users THEN db
    ELSE [db EXCEPT
            !.users = @ @@ (u :> UserRow(FALSE, "author", username,
                               IF Len(SplitName(name)) > 0 THEN SplitName(name)[1] ELSE "",
                               IF Len(SplitName(name)) > 1 THEN SplitName(name)[2] ELSE "")),
            !.nextId.users = @ + 1]

UpdateOrCreateAuthorKeepingOld(db, a, u, tmdbId, details) ==
    LET birthday == IF details.ok /\ details.birthday # ""
                    THEN ParseBirthday(details.birthday) ELSE ""
        bio == IF details.ok THEN Bio1000(details.biography) ELSE ""
    IN  IF a \in DOMAIN db.authors
        THEN [db EXCEPT !.authors[a].tmdb_id = tmdbId,
                        !.authors[a].source = "TMDB",
                        !.authors[a].date_of_birth = IF birthday # "" THEN birthday ELSE @,
                        !.authors[a].bio = IF bio # "" THEN bio ELSE @]
        ELSE [db EXCEPT
                !.authors = @ @@ (a :> [user |-> u, bio |-> bio,
                                        date_of_birth |-> birthday,
                                        tmdb_id |-> tmdbId,
                                        source |-> "TMDB", photo |-> ""]),
                !.nextId.authors = @ + 1]

\* Author.objects.update_or_create(user=user, defaults=...)
UpdateOrCreateAuthor(db, a, u, tmdbId, details) ==
    LET birthday == IF details.ok /\ details.birthday # ""
                    THEN ParseBirthday(details.birthday) ELSE ""
        bio == IF details.ok THEN Bio1000(details.biography) ELSE ""
    IN  IF a \in DOMAIN db.authors
        THEN [db EXCEPT !.authors[a].tmdb_id = tmdbId,
                        !.authors[a].source = "TMDB",
                        !.authors[a].date_of_birth = birthday,
                        !.authors[a].bio = bio]
        ELSE [db EXCEPT
                !.authors = @ @@ (a :> [user |-> u, bio |-> bio,
                                        date_of_birth |-> birthday,
                                        tmdb_id |-> tmdbId,
                                        source |-> "TMDB", photo |-> ""]),
                !.nextId.authors = @ + 1]

PhotoStepWithoutFallback(db, st, a, person, details, photo) ==
    LET profilePath == IF details.ok THEN details.profile_path ELSE ""
        r == DownloadAndSaveAuthorPhoto(db, st, a, profilePath, person.id, photo)
    IN  IF profilePath # ""
        THEN Returned("author", a, r.db, r.storage, <<"person", "photo">>)
        ELSE Returned("author", a, db, st, <<"person">>)

\* _import_author, the photo: downloaded when the person details or the
\* crew entry have a profile_path; the author is returned whatever the
\* download does
PhotoStep(db, st, a, person, details, photo) ==
    LET profilePath == IF details.ok /\ details.profile_path # ""
                       THEN details.profile_path ELSE person.profile_path
        r == DownloadAndSaveAuthorPhoto(db, st, a, profilePath, person.id, photo)
    IN  IF profilePath # ""
        THEN Returned("author", a, r.db, r.storage, <<"person", "photo">>)
        ELSE Returned("author", a, db, st, <<"person">>)

\* _import_author from the user on: db holds the user u
ImportAuthorOf(db, st, u, person, details, photo) ==
    PhotoStep(UpdateOrCreateAuthor(db, RowFor(AuthorsOf(db, u), db.nextId.authors),
                                   u, person.id, details),
              st, RowFor(AuthorsOf(db, u), db.nextId.authors), person, details, photo)

\* the username of the synthetic user of a person
TmdbUsername(id) == "tmdb_" \o ToString(id)

ImportAuthorUserFirst(db, st, person, details, photo) ==
    IF person.id = 0
    THEN Returned("none", 0, db, st, <<>>)
    ELSE IF person.name = ""
    THEN Returned("none", 0,
                  GetOrCreateUser(db, RowFor(UsersNamed(db, TmdbUsername(person.id)),
                                             db.nextId.users),
                                  TmdbUsername(person.id), person.name),
                  st, <<>>)
    ELSE ImportAuthorOf(
             GetOrCreateUser(db, RowFor(UsersNamed(db, TmdbUsername(person.id)),
                                        db.nextId.users),
                             TmdbUsername(person.id), person.name),
             st,
             RowFor(UsersNamed(db, TmdbUsername(person.id)), db.nextId.users),
             person, details, photo)

\* _import_author: the user by get_or_create, the author by
\* update_or_create, then the photo
ImportAuthor(db, st, person, details, photo) ==
    IF person.id = 0 \/ person.name = ""
    THEN Returned("none", 0, db, st, <<>>)
    ELSE ImportAuthorOf(
             GetOrCreateUser(db, RowFor(UsersNamed(db, TmdbUsername(person.id)),
                                        db.nextId.users),
                             TmdbUsername(person.id), person.name),
             st,
             RowFor(UsersNamed(db, TmdbUsername(person.id)), db.nextId.users),
             person, details, photo)

\* _fetch_and_import_director: a failed fetch gives None; reading "job" of
\* an entry that has none raises KeyError, which is not caught
FetchAndImportDirector(db, st, credits, details, photo) ==
    IF ~credits.ok THEN Returned("none", 0, db, st, <<"credits">>)
    ELSE IF \E n \in 1..Len(credits.crew) : credits.crew[n].job = NoJob
    THEN Returned("raised", 0, db, st, <<"credits">>)
    ELSE LET directors == SelectSeq(credits.crew, LAMBDA member : member.job = "Director")
         IN  IF directors # <<>>
             THEN After(<<"credits">>, ImportAuthor(db, st, directors[1], details, photo))
             ELSE Returned("none", 0, db, st, <<"credits">>)

RequiredGivenWithoutDate(rec) == rec.id # 0 /\ rec.title # ""

\* all([tmdb_id, title, release_date])
RequiredGiven(rec) == rec.id # 0 /\ rec.title # "" /\ rec.release_date # ""

PosterStepUncaught(db, st, f, rec, poster) ==
    LET r == DownloadAndSavePoster(db, st, f, rec.poster_path, rec.id, poster)
    IN  IF rec.poster_path = "" THEN Returned("film", f, db, st, <<>>)
        ELSE Returned(IF poster = "ok" THEN "film" ELSE "raised",
                      f, r.db, r.storage, <<"poster">>)

\* import_movie, the poster: downloaded when the record has a poster_path;
\* the film is returned whatever the download does
PosterStep(db, st, f, rec, poster) ==
    LET r == DownloadAndSavePoster(db, st, f, rec.poster_path, rec.id, poster)
    IN  IF rec.poster_path = "" THEN Returned("film", f, db, st, <<>>)
        ELSE Returned("film", f, r.db, r.storage, <<"poster">>)

FilmsOfTmdb(db, tmdbId) == {f \in DOMAIN db.films : db.films[f].tmdb_id = tmdbId}

UpdateOrCreateFilmKeepingStatus(db, f, rec, director) ==
    IF f \in DOMAIN db.films
    THEN [db EXCEPT !.films[f].title = rec.title,
                    !.films[f].description = rec.overview,
                    !.films[f].release_date = rec.release_date,
                    !.films[f].source = "TMDB",
                    !.films[f].authors = @ \cup {director}]
    ELSE [db EXCEPT
            !.films = @ @@ (f :> [title |-> rec.title,
                                  description |-> rec.overview,
                                  release_date |-> rec.release_date,
                                  status |-> "published",
                                  evaluation |-> "G", source |-> "TMDB",
                                  tmdb_id |-> rec.id, poster |-> "",
                                  authors |-> {director}]),
            !.nextId.films = @ + 1]

UpdateOrCreateFilmSettingAuthors(db, f, rec, director) ==
    IF f \in DOMAIN db.films
    THEN [db EXCEPT !.films[f].title = rec.title,
                    !.films[f].description = rec.overview,
                    !.films[f].release_date = rec.release_date,
                    !.films[f].status = "published",
                    !.films[f].evaluation = "G",
                    !.films[f].source = "TMDB",
                    !.films[f].authors = {director}]
    ELSE [db EXCEPT
            !.films = @ @@ (f :> [title |-> rec.title,
                                  description |-> rec.overview,
                                  release_date |-> rec.release_date,
                                  status |-> "published",
                                  evaluation |-> "G", source |-> "TMDB",
                                  tmdb_id |-> rec.id, poster |-> "",
                                  authors |-> {director}]),
            !.nextId.films = @ + 1]

\* Film.objects.update_or_create(tmdb_id=tmdb_id, defaults=...), then
\* film.authors.add(director)
UpdateOrCreateFilm(db, f, rec, director) ==
    IF f \in DOMAIN db.films
    THEN [db EXCEPT !.films[f].title = rec.title,
                    !.films[f].description = rec.overview,
                    !.films[f].release_date = rec.release_date,
                    !.films[f].status = "published",
                    !.films[f].evaluation = "G",
                    !.films[f].source = "TMDB",
                    !.films[f].authors = @ \cup {director}]
    ELSE [db EXCEPT
            !.films = @ @@ (f :> [title |-> rec.title,
                                  description |-> rec.overview,
                                  release_date |-> rec.release_date,
                                  status |-> "published",
                                  evaluation |-> "G", source |-> "TMDB",
                                  tmdb_id |-> rec.id, poster |-> "",
                                  authors |-> {director}]),
            !.nextId.films = @ + 1]

\* import_movie from the director on: d is what _fetch_and_import_director
\* returned.  A release_date that is no date makes the save of the Film
\* raise ValidationError.
ImportFilmOf(d, rec, poster) ==
    IF d.result # "author" THEN d
    ELSE IF ~IsDate(rec.release_date)
    THEN Returned("raised", 0, d.db, d.storage, d.http)
    ELSE After(d.http,
               PosterStep(UpdateOrCreateFilm(d.db,
                              RowFor(FilmsOfTmdb(d.db, rec.id), d.db.nextId.films),
                              rec, d.id),
                          d.storage,
                          RowFor(FilmsOfTmdb(d.db, rec.id), d.db.nextId.films),
                          rec, poster))

\* the body of import_movie; ext is what the external API answers:
\* [credits, details, photo, poster]
ImportMovieBody(db, st, rec, ext) ==
    IF ~RequiredGiven(rec) THEN Returned("none", 0, db, st, <<>>)
    ELSE ImportFilmOf(FetchAndImportDirector(db, st, ext.credits, ext.details, ext.photo),
                      rec, ext.poster)

NotAtomic(before, r) == r

\* @transaction.atomic: when the call raises, the rows are as before it
Atomic(before, r) == IF r.result = "raised" THEN [r EXCEPT !.db = before] ELSE r

\* import_movie
ImportMovie(db, st, rec, ext) == Atomic(db, ImportMovieBody(db, st, rec, ext))

\* results[:limit] on a list of n entries: the length of the slice
SliceLen(n, limit) ==
    IF limit >= 0 THEN (IF limit < n THEN limit ELSE n)
    ELSE (IF n + limit > 0 THEN n + limit ELSE 0)

\* get_popular_movies: the number of records it returns.  apiKey is whether
\* TMDB_API_KEY is set, fetch whether the request succeeds, n the length of
\* "results" in the answer
GetPopularMovies(apiKey, fetch, n, limit) ==
    IF ~apiKey THEN 0
    ELSE IF ~fetch THEN 0
    ELSE SliceLen(n, limit)

(***************************************************************************)
(* SpecImport: runs of the import_tmdb command, one after the other.  A    *)
(* run is Command.handle; each call of import_movie is one step of it.     *)
(* MaxImports bounds the calls of import_movie over all runs, MaxResults   *)
(* the records the external API lists.                                     *)
(***************************************************************************)
MaxImports == 2
MaxResults == 2

\* the values of --limit
Limits == {-1, 0, 1, 2}

MovieRecords ==
    {Movie(101, "Dune", "2021-09-15", "sand", "/dune.jpg"),
     Movie(101, "Dune Two", "2024-03-01", "more sand", "/dune2.jpg"),
     Movie(103, "Soon", "", "", ""),
     Movie(0, "Dune", "2021-09-15", "", ""),
     Movie(101, "", "2021-09-15", "", ""),
     Movie(104, "Soon", "soon", "", "")}

NoCredits == Credits(FALSE, <<>>)

CreditsAnswers ==
    {NoCredits,
     Credits(TRUE, <<>>),
     Credits(TRUE, <<Member("Writer", 9, "Cher", "")>>),
     Credits(TRUE, <<Member(NoJob, 9, "Cher", "")>>),
     Credits(TRUE, <<Member("Director", 7, "Ann Lee", "/ann.jpg")>>),
     Credits(TRUE, <<Member("Director", 7, "Ann Ray", "")>>)}

NoDetails == Details(FALSE, "", "", "")

DetailsAnswers ==
    {NoDetails,
     Details(TRUE, "1970-01-01", "bio of 1001 characters", "")}

\* what the external API answers during one call of import_movie
Answers(credits, details, photo, poster) ==
    [credits |-> credits, details |-> details, photo |-> photo, poster |-> poster]

DbRows == Rows(users, authors, films, nextId)

\* the requests import_movie sends for a record, given the answers to the
\* credits and the person request
Requests(rec, credits, details) ==
    LET http == ImportMovie(DbRows, storage, rec,
                            Answers(credits, details, "ok", "ok")).http
    IN  {http[n] : n \in 1..Len(http)}

\* the answers to choose from for a request: one fixed answer when the
\* call does not send the request
AnswersTo(asked, request, answers, unasked) ==
    IF request \in asked THEN answers ELSE {unasked}

\* Command.handle up to the loop: no movies ends the run with a warning
StartRun(limit, apiKey, fetch, n) ==
    /\ run.state # "running"
    /\ run.imports < MaxImports
    /\ LET fetched == GetPopularMovies(apiKey, fetch, n, limit)
       IN  run' = [NoRun EXCEPT !.state = IF fetched = 0 THEN "noop" ELSE "running",
                                !.imports = run.imports, !.limit = limit,
                                !.fetch = IF ~apiKey THEN "nokey"
                                          ELSE IF ~fetch THEN "failed"
                                          ELSE IF n = 0 THEN "empty" ELSE "listed",
                                !.fetched = fetched]
    /\ UNCHANGED <<cache, now, dbVars, last, nreq, procVars, hist, storage>>

\* one round of the loop of Command.handle: import_movie on the next record.
\* An exception of import_movie ends the command.
ImportRecord(rec, ext) ==
    /\ run.state = "running"
    /\ run.pos < run.fetched
    /\ run.imports < MaxImports
    /\ \E r \in {ImportMovie(DbRows, storage, rec, ext)} :
           /\ users' = r.db.users
           /\ authors' = r.db.authors
           /\ films' = r.db.films
           /\ nextId' = r.db.nextId
           /\ storage' = r.storage
           /\ run' = [run EXCEPT
                        !.imports = @ + 1,
                        !.state = IF r.result = "raised" THEN "raised" ELSE @,
                        !.pos = IF r.result = "raised" THEN @ ELSE @ + 1,
                        !.count = IF r.result = "film" THEN @ + 1 ELSE @,
                        !.returned = IF r.result = "film" THEN @ + 1 ELSE @,
                        !.call = [rec |-> rec, ext |-> ext, result |-> r.result,
                                  id |-> r.id, http |-> r.http]]
    /\ UNCHANGED <<cache, now, spectators, filmReviews, authorReviews, last, nreq,
                   procVars, hist>>

\* the end of Command.handle: the summary line
FinishRun ==
    /\ run.state = "running"
    /\ run.pos = run.fetched
    /\ run' = [run EXCEPT !.state = "done", !.summary = run.count]
    /\ UNCHANGED <<cache, now, dbVars, last, nreq, procVars, hist, storage>>

NextImport ==
    \/ \E limit \in Limits, apiKey \in BOOLEAN, fetch \in BOOLEAN, n \in 0..MaxResults :
           StartRun(limit, apiKey, fetch, n)
    \/ \E rec \in MovieRecords :
         \E credits \in AnswersTo(Requests(rec, NoCredits, NoDetails), "credits",
                                  CreditsAnswers, NoCredits) :
           \E details \in AnswersTo(Requests(rec, credits, NoDetails), "person",
                                    DetailsAnswers, NoDetails) :
             \E photo \in AnswersTo(Requests(rec, credits, details), "photo",
                                    Downloads, "ok"),
                poster \in AnswersTo(Requests(rec, credits, details), "poster",
                                     Downloads, "ok") :
                ImportRecord(rec, Answers(credits, details, photo, poster))
    \/ FinishRun

SpecImport == InitApi /\ [][NextImport]_vars


(***************************************************************************)
(* SpecCrew: runs of the import_tmdb command on one movie whose credits    *)
(* change between the calls: another director, several directors, a first  *)
(* director without id or without name.  Between the runs the admin may    *)
(* archive an imported film or give it another evaluation.                 *)
(***************************************************************************)
CrewRecords ==
    {Movie(101, "Dune", "2021-09-15", "sand", ""),
     Movie(103, "Soon", "", "", "")}

CrewAnswers ==
    {NoCredits,
     Credits(TRUE, <<Member("Writer", 9, "Cher", "")>>),
     Credits(TRUE, <<Member("Director", 7, "Ann Lee", "/ann.jpg")>>),
     Credits(TRUE, <<Member("Director", 8, "Bo Ray", "")>>),
     Credits(TRUE, <<Member("Writer", 9, "Cher", ""),
                     Member("Director", 8, "Bo Ray", ""),
                     Member("Director", 7, "Ann Lee", "/ann.jpg")>>),
     Credits(TRUE, <<Member("Director", 0, "Ann Lee", "/ann.jpg"),
                     Member("Director", 8, "Bo Ray", "")>>),
     Credits(TRUE, <<Member("Director", 7, "", "/ann.jpg"),
                     Member("Director", 8, "Bo Ray", "")>>),
     Credits(TRUE, <<Member("Director", 7, "Ann Lee", "/ann.jpg"),
                     Member(NoJob, 9, "Cher", "")>>)}

\* the person details: none, a birthday with a long biography, neither
CrewDetails ==
    {NoDetails,
     Details(TRUE, "1970-01-01", "bio of 1001 characters", ""),
     Details(TRUE, "", "", "")}

\* PATCH /films/<f>/ with another evaluation (FilmViewSet.partial_update)
RateFilm(actor, f, evaluation) ==
    /\ nreq < MaxRequests
    /\ LET res == IF ~IsStaff(actor) THEN Raise(Refused(actor), "PERMISSION_DENIED")
                  ELSE IF f \notin DOMAIN films THEN Raise(404, "NOT_FOUND")
                  ELSE IF evaluation \notin {"G", "PG", "PG-13", "R", "NC-17"}
                       THEN Raise(400, "VALIDATION_ERROR")
                  ELSE FilmPerformUpdate
       IN  /\ Answer("films.rate", actor, f, FILM_CACHE_PREFIX, res)
           /\ IF Writes(res)
              THEN films' = [films EXCEPT ![f].evaluation = evaluation]
              ELSE UNCHANGED films
    /\ UNCHANGED <<users, spectators, authors, filmReviews, authorReviews, nextId>>

\* the admin rates an imported film "R" between two runs
RateImported(f) ==
    /\ films[f].tmdb_id # 0
    /\ run.state # "running"
    /\ RateFilm(AdminUser, f, "R")

\* POST /films/<f>/archive/ by the admin on an imported film
ArchiveImported(f) ==
    /\ films[f].tmdb_id # 0
    /\ run.state # "running"
    /\ ArchiveFilm(AdminUser, f)

NextCrew ==
    \/ \E limit \in {1, 2}, n \in 1..MaxResults : StartRun(limit, TRUE, TRUE, n)
    \/ \E rec \in CrewRecords :
         \E credits \in AnswersTo(Requests(rec, NoCredits, NoDetails), "credits",
                                  CrewAnswers, NoCredits) :
           \E details \in AnswersTo(Requests(rec, credits, NoDetails), "person",
                                    CrewDetails, NoDetails) :
             \E photo \in AnswersTo(Requests(rec, credits, details), "photo",
                                    {"ok", "transport"}, "ok") :
                ImportRecord(rec, Answers(credits, details, photo, "ok"))
    \/ FinishRun
    \/ \E f \in DOMAIN films : ArchiveImported(f)
    \/ \E f \in DOMAIN films : RateImported(f)

SpecCrew == InitApi /\ [][NextCrew]_vars

(***************************************************************************)
(* SpecWait: runs of the import_tmdb command, one step per request to the  *)
(* external API.  A request waits until the upstream answers or until its  *)
(* timeout ends the wait; the upstream is free never to answer.  The rows  *)
(* and files of a record are written when its last request has returned.   *)
(***************************************************************************)
MaxWaitRuns == 2

\* the timeout argument of requests.get, in seconds; 0 when the call passes
\* none: get_popular_movies and _fetch_and_import_director pass none
RequestTimeout(request) == IF request \in {"person", "photo", "poster"} THEN 10 ELSE 0

\* what the caller gets when requests.get raises (Timeout is a
\* RequestException)
FailureOf(request) ==
    CASE request = "popular" -> [ok |-> FALSE, n |-> 0]
      [] request = "credits" -> NoCredits
      [] request = "person" -> NoDetails
      [] OTHER -> "transport"

\* the answers the upstream may give to a request
RepliesTo(request) ==
    CASE request = "popular" -> {[ok |-> ok, n |-> n] : ok \in BOOLEAN, n \in 0..MaxResults}
      [] request = "credits" ->
            {NoCredits, Credits(TRUE, <<>>),
             Credits(TRUE, <<Member("Director", 7, "Ann Lee", "/ann.jpg")>>)}
      [] request = "person" ->
            {NoDetails, Details(TRUE, "1970-01-01", "bio of 1001 characters", "")}
      [] OTHER -> {"ok", "not200", "transport"}

WaitRecords ==
    {Movie(101, "Dune", "2021-09-15", "sand", "/dune.jpg"),
     Movie(103, "Soon", "", "", "")}

NoWait == [request |-> "", timeout |-> 0]

Unanswered == Answers(NoCredits, NoDetails, "ok", "ok")

NoWaitRun == [state |-> "idle", runs |-> 0, limit |-> 0, fetched |-> 0, pos |-> 0,
              count |-> 0, summary |-> -1, rec |-> <<>>, ext |-> Unanswered,
              answered |-> 0, wait |-> NoWait]

InitWait ==
    /\ CacheInit
    /\ ProcInit
    /\ SeedDb
    /\ storage = EmptyMap
    /\ run = NoWaitRun
    /\ last = NoRequest
    /\ nreq = 0
    /\ hist = <<>>

\* the requests import_movie still has to send for the current record,
\* given the answers it has got so far
Pending ==
    IF run.rec = <<>> THEN <<>>
    ELSE SubSeq(ImportMovie(DbRows, storage, run.rec, run.ext).http,
                run.answered + 1,
                Len(ImportMovie(DbRows, storage, run.rec, run.ext).http))

\* requests.get is called: the caller waits
Waiting(request) == [request |-> request, timeout |-> RequestTimeout(request)]

\* Command.handle calls get_popular_movies; without API key no request is
\* sent and the run ends with the warning
WaitStartRun(limit, apiKey) ==
    /\ run.state \in {"idle", "done", "noop"}
    /\ run.runs < MaxWaitRuns
    /\ run' = [NoWaitRun EXCEPT !.runs = run.runs + 1, !.limit = limit,
                                !.state = IF apiKey THEN "fetching" ELSE "noop",
                                !.wait = IF apiKey THEN Waiting("popular") ELSE NoWait]
    /\ UNCHANGED <<cache, now, dbVars, last, nreq, procVars, hist, storage>>

\* requests.get returns or raises: the caller goes on with the answer
Received(answer) ==
    /\ run' = CASE run.wait.request = "popular" ->
                     [run EXCEPT !.wait = NoWait,
                                 !.fetched = GetPopularMovies(TRUE, answer.ok, answer.n,
                                                              run.limit),
                                 !.state = IF GetPopularMovies(TRUE, answer.ok, answer.n,
                                                               run.limit) = 0
                                           THEN "noop" ELSE "running"]
                [] run.wait.request = "credits" ->
                     [run EXCEPT !.wait = NoWait, !.answered = @ + 1,
                                 !.ext.credits = answer]
                [] run.wait.request = "person" ->
                     [run EXCEPT !.wait = NoWait, !.answered = @ + 1,
                                 !.ext.details = answer]
                [] run.wait.request = "photo" ->
                     [run EXCEPT !.wait = NoWait, !.answered = @ + 1,
                                 !.ext.photo = answer]
                [] run.wait.request = "poster" ->
                     [run EXCEPT !.wait = NoWait, !.answered = @ + 1,
                                 !.ext.poster = answer]
    /\ UNCHANGED <<cache, now, dbVars, last, nreq, procVars, hist, storage>>

\* the upstream answers the request the run waits for
Respond(answer) ==
    /\ run.wait.request # ""
    /\ Received(answer)

\* the timeout of the request the run waits for ends the wait
TimeOut ==
    /\ run.wait.request # ""
    /\ run.wait.timeout > 0
    /\ Received(FailureOf(run.wait.request))

\* the loop of Command.handle takes the next record
BeginRecord(rec) ==
    /\ run.state = "running"
    /\ run.rec = <<>>
    /\ run.pos < run.fetched
    /\ run' = [run EXCEPT !.rec = rec, !.ext = Unanswered, !.answered = 0]
    /\ UNCHANGED <<cache, now, dbVars, last, nreq, procVars, hist, storage>>

\* import_movie sends its next request
SendNext ==
    /\ run.state = "running"
    /\ run.wait.request = ""
    /\ Pending # <<>>
    /\ run' = [run EXCEPT !.wait = Waiting(Pending[1])]
    /\ UNCHANGED <<cache, now, dbVars, last, nreq, procVars, hist, storage>>

\* import_movie returns: every request it sent has returned
CompleteRecord ==
    /\ run.state = "running"
    /\ run.rec # <<>>
    /\ run.wait.request = ""
    /\ Pending = <<>>
    /\ \E r \in {ImportMovie(DbRows, storage, run.rec, run.ext)} :
           /\ users' = r.db.users
           /\ authors' = r.db.authors
           /\ films' = r.db.films
           /\ nextId' = r.db.nextId
           /\ storage' = r.storage
           /\ run' = [run EXCEPT !.rec = <<>>, !.ext = Unanswered, !.answered = 0,
                                 !.pos = @ + 1,
                                 !.count = IF r.result = "film" THEN @ + 1 ELSE @]
    /\ UNCHANGED <<cache, now, spectators, filmReviews, authorReviews, last, nreq,
                   procVars, hist>>

\* the end of Command.handle: the summary line
WaitFinishRun ==
    /\ run.state = "running"
    /\ run.rec = <<>>
    /\ run.pos = run.fetched
    /\ run' = [run EXCEPT !.state = "done", !.summary = run.count]
    /\ UNCHANGED <<cache, now, dbVars, last, nreq, procVars, hist, storage>>

\* the steps of the command itself, the end of a timeout included
CommandStep ==
    \/ \E limit \in {1, 2}, apiKey \in BOOLEAN : WaitStartRun(limit, apiKey)
    \/ TimeOut
    \/ \E rec \in WaitRecords : BeginRecord(rec)
    \/ SendNext
    \/ CompleteRecord
    \/ WaitFinishRun

UpstreamStep == \E answer \in RepliesTo(run.wait.request) : Respond(answer)

NextWait == CommandStep \/ UpstreamStep

\* the command keeps running while it has a step to take; nothing makes
\* the upstream answer
SpecWait == InitWait /\ [][NextWait]_vars /\ WF_vars(CommandStep)

(***************************************************************************)
(* SpecOutage: requests during which the cache store is unavailable.  A    *)
(* cache call that cannot reach the store raises the backend's error,      *)
(* which is no ValueError and no exception of the REST framework.          *)
(***************************************************************************)
\* the cache calls of the handlers; failAt names the first call of a request
\* that raises
CacheCalls == {"get_or_set", "get", "set", "incr"}

\* custom_exception_handler on an exception it does not know
InternalError(effects) == [status |-> 500, code |-> "INTERNAL_ERROR", effects |-> effects]

\* FilmViewSet.list (AuthorViewSet.list, AuthorReviewViewSet.list) when the
\* cache call failAt raises: nothing in build_list_cache_key or list catches
\* it, so the request ends in the exception handler
ListResponseOutage(c, prefix, actor, q, t, failAt) ==
    LET ok == ListResponse(c, prefix, actor, q, t)
        built == BuildListCacheKey(c, prefix, actor, q, t)
        failed(c2, key, queries) ==
            [cache |-> c2, key |-> key, hit |-> FALSE, payload |-> <<>>,
             queries |-> queries, status |-> 500, code |-> "INTERNAL_ERROR"]
        served == [cache |-> ok.cache, key |-> ok.key, hit |-> ok.hit,
                   payload |-> ok.payload, queries |-> ok.queries,
                   status |-> 200, code |-> ""]
    IN  CASE failAt = "get_or_set" -> failed(c, "", 0)
          [] failAt = "get" -> failed(built.cache, built.key, 0)
          [] failAt = "set" -> IF ok.hit THEN served
                               ELSE failed(built.cache, built.key, 1)
          [] OTHER -> served

\* a list request during an outage
ListViewOutage(prefix, actor, q, failAt) ==
    /\ nreq < MaxRequests
    /\ LET r == ListResponseOutage(cache, prefix, actor, q, now, failAt)
       IN  /\ cache' = r.cache
           /\ last' = [NoRequest EXCEPT !.op = "list", !.actor = actor, !.q = q,
                                        !.prefix = prefix, !.status = r.status,
                                        !.code = r.code, !.failAt = failAt,
                                        !.key = r.key, !.hit = r.hit,
                                        !.payload = r.payload, !.queries = r.queries]
    /\ nreq' = nreq + 1
    /\ UNCHANGED <<now, dbVars, procVars, hist, importVars>>

\* a perform_* method when cache.incr raises in increment_version: the rows
\* are written, the except ValueError clause does not catch the error
PerformDuringOutage(res) ==
    IF \E n \in 1..Len(res.effects) : res.effects[n] # "write"
    THEN InternalError(SelectSeq(res.effects, LAMBDA e : e = "write"))
    ELSE res

\* POST /films/<f>/archive/ during an outage
ArchiveFilmOutage(actor, f) ==
    /\ nreq < MaxRequests
    /\ LET res == IF ~IsStaff(actor) THEN Raise(Refused(actor), "PERMISSION_DENIED")
                  ELSE IF f \notin DOMAIN films THEN Raise(404, "NOT_FOUND")
                  ELSE PerformDuringOutage(FilmArchive)
       IN  /\ Answer("films.archive", actor, f, FILM_CACHE_PREFIX, res)
           /\ IF Writes(res)
              THEN films' = [films EXCEPT ![f].status = "archived"]
              ELSE UNCHANGED films
    /\ UNCHANGED <<users, spectators, authors, filmReviews, authorReviews, nextId>>

\* POST /author-reviews/ during an outage
CreateAuthorReviewOutage(actor, a, rating) ==
    /\ nreq < MaxRequests
    /\ LET res == IF ~IsAuthenticated(actor) THEN Raise(401, "NOT_AUTHENTICATED")
                  ELSE IF a \notin DOMAIN authors THEN Raise(400, "VALIDATION_ERROR")
                  ELSE IF <<a, actor>> \in DOMAIN authorReviews /\ HasSpectatorProfile(actor)
                       THEN Raise(409, "DUPLICATE_RESOURCE")
                       ELSE PerformDuringOutage(AuthorReviewPerformCreate(actor))
       IN  /\ Answer("author_reviews.create", actor, a, AUTHOR_REVIEW_CACHE_PREFIX, res)
           /\ IF Writes(res)
              THEN authorReviews' = authorReviews @@ (<<a, actor>> :> rating)
              ELSE UNCHANGED authorReviews
    /\ UNCHANGED <<users, spectators, authors, films, filmReviews, nextId>>

NextOutage ==
    \/ \E r \in ListRequests : ListView(r[1], r[2], r[3])
    \/ \E r \in ListRequests, failAt \in CacheCalls :
          ListViewOutage(r[1], r[2], r[3], failAt)
    \/ \E f \in FilmIds : ArchiveFilm(AdminUser, f)
    \/ \E actor \in Actors, f \in FilmIds : ArchiveFilmOutage(actor, f)
    \/ \E actor \in Actors : CreateAuthorReviewOutage(actor, 1, 5)

SpecOutage == InitApi /\ [][NextOutage]_vars

(***************************************************************************)
(* Claims about the version counter, on SpecSeq                            *)
(***************************************************************************)
GetsOf(prefix) ==
    {i \in 1..Len(hist) : hist[i].op = "get_version" /\ hist[i].prefix = prefix}

\* C2: for every prefix the values get_version returns never decrease over a
\* sequence of get_version and increment_version calls, also when the store
\* drops the version key between two calls.
C2_VersionNeverDecreases ==
    \A prefix \in SeqPrefixes :
        \A i, j \in GetsOf(prefix) : i < j => hist[i].ret <= hist[j].ret

\* C4: from a store with no version key for "films:list", four calls of
\* increment_version("films:list") and then get_version("films:list"): the
\* get_version returns 5.
C4_FourIncrementsGiveFive ==
    ( /\ Len(hist) = 5
      /\ \A i \in 1..4 : hist[i] = Called("increment_version", FILM_CACHE_PREFIX, 0)
      /\ hist[5].op = "get_version"
      /\ hist[5].prefix = FILM_CACHE_PREFIX )
    => hist[5].ret = 5

CallsOn(prefix) == {i \in 1..Len(hist) : hist[i].prefix = prefix}

LastCallOn(prefix) ==
    CHOOSE i \in CallsOn(prefix) : \A j \in CallsOn(prefix) : j <= i

GetVersionStep(prefix) ==
    /\ Len(hist') = Len(hist) + 1
    /\ hist'[Len(hist')].op = "get_version"
    /\ hist'[Len(hist')].prefix = prefix

GetVersionStepIsRight(prefix) ==
    LET k == VersionKey(prefix)
        r == hist'[Len(hist')].ret
    IN  /\ ~CacheLive(cache, k, now) =>
              /\ r = 1
              /\ CacheLive(cache', k, now')
              /\ cache'[k].value = 1
        /\ CacheLive(cache, k, now) =>
              /\ r = cache[k].value
              /\ cache' = cache
        /\ (CallsOn(prefix) # {} /\ hist[LastCallOn(prefix)].op = "get_version") =>
              /\ r = hist[LastCallOn(prefix)].ret
              /\ cache' = cache
        /\ (\A i \in CallsOn(prefix) : hist[i].op # "increment_version") => r = 1

ListKeys(c) == DOMAIN c \ {VersionKey(p) : p \in Prefixes}

\* request i is served from the cache in this step
ServedFromCache(i) == pc[i] = "l_get" /\ pc'[i] = "idle"

\* a list entry whose version is the one a read starting now would use
Reachable(c, k, t) ==
    /\ CacheLive(c, k, t)
    /\ c[k].value.made.version = CurrentVersion(c, c[k].value.made.prefix, t)

\* C1: in every interleaving of list reads, writes (save, then
\* increment_version) and drops of keys, a list read is never served a
\* payload that misses a write whose handler had returned, with its version
\* bump, before the read built its key; and an entry stored under a version
\* the prefix had already left is reachable by no later read while it lives.
C1_NoStaleRead ==
    /\ [][\A i \in Procs :
            ServedFromCache(i) => cache[loc[i].key].value.made.rev >= loc[i].needRev]_vars
    /\ [](\A k \in ListKeys(cache) :
            cache[k].value.made.orphan => ~Reachable(cache, k, now))

IncrementInFlight(prefix) ==
    \E j \in Procs : pc[j] \in {"iv_incr", "iv_set"} /\ loc[j].prefix = prefix

\* get_version returns to request i in this step
GetVersionReturns(i) == pc[i] \in {"gv_get", "gv_reget"} /\ pc'[i] = "l_get"

\* C3: for every prefix, starting from a store without its version key
\* (initial version 1), after N completed increment_version calls by any
\* number of concurrent writers, with none in flight and no key dropped,
\* get_version returns 1 + N.
C3_NoIncrementLost ==
    [][\A i \in Procs :
          ( /\ GetVersionReturns(i)
            /\ ~IncrementInFlight(loc[i].prefix)
            /\ ~dropped[loc[i].prefix] )
          => loc'[i].version = 1 + incrCalls[loc[i].prefix]]_vars


(***************************************************************************)
(* Claims about the mutating handlers, on SpecApi                          *)
(***************************************************************************)
OwnPrefix(op) ==
    CASE op \in {"films.create", "films.update", "films.destroy", "films.archive"}
            -> FILM_CACHE_PREFIX
      [] op \in {"authors.create", "authors.update", "authors.destroy"}
            -> AUTHOR_CACHE_PREFIX
      [] op \in {"author_reviews.create", "author_reviews.update",
                 "author_reviews.destroy"}
            -> AUTHOR_REVIEW_CACHE_PREFIX
      [] op = "spectators.register" -> SPECTATOR_CACHE_PREFIX

InvalidatingOps ==
    {"films.create", "films.update", "films.destroy", "films.archive",
     "authors.create", "authors.update", "authors.destroy",
     "author_reviews.create", "author_reviews.update", "author_reviews.destroy",
     "spectators.register"}

Succeeded(r) == r.status \in {200, 201, 204}

\* the increment_version calls of a request, in order
IncrementCalls(r) == SelectSeq(r.effects, LAMBDA e : e # "write")

\* C6: a successful create, update, delete or archive of a film, create,
\* update or delete of an author or of an author review, or registration of
\* a spectator calls increment_version exactly once, with the prefix of its
\* own resource and after the write of the store, so that the cache store
\* after the request is the store before it with that one call applied; a
\* request refused by a permission, a validation or a business rule calls
\* it zero times and leaves the rows and the cache store as they were.
C6_OneInvalidationPerMutation ==
    [][(nreq' = nreq + 1 /\ last'.op \in InvalidatingOps) =>
          IF Succeeded(last')
          THEN /\ IncrementCalls(last') = <<OwnPrefix(last'.op)>>
               /\ last'.effects[1] = "write"
               /\ last'.effects[Len(last'.effects)] = OwnPrefix(last'.op)
               /\ cache' = IncrementVersion(cache, OwnPrefix(last'.op), now)
          ELSE /\ IncrementCalls(last') = <<>>
               /\ cache' = cache
               /\ dbVars' = dbVars]_vars

\* an archive succeeded after a delete of an author was refused
C6_Witness ==
    /\ last.op = "films.archive"
    /\ Succeeded(last)
    /\ films[last.target].status = "archived"
    /\ VersionKey(FILM_CACHE_PREFIX) \in DOMAIN cache
    /\ nreq >= 2

\* C7: a delete of an author that has a film is answered 409 with the code
\* AUTHOR_HAS_FILMS, and the author, the films and the version of
\* "authors:list" are as before; a delete of an author without films
\* removes the author and makes the version of "authors:list" one higher.
C7_DeleteAuthorGuarded ==
    [][(nreq' = nreq + 1 /\ last'.op = "authors.destroy"
           /\ IsStaff(last'.actor) /\ last'.target \in DOMAIN authors) =>
          IF AuthorHasFilms(last'.target)
          THEN /\ last'.status = 409
               /\ last'.code = "AUTHOR_HAS_FILMS"
               /\ authors' = authors
               /\ films' = films
               /\ CurrentVersion(cache', AUTHOR_CACHE_PREFIX, now)
                     = CurrentVersion(cache, AUTHOR_CACHE_PREFIX, now)
          ELSE /\ last'.target \notin DOMAIN authors'
               /\ CurrentVersion(cache', AUTHOR_CACHE_PREFIX, now)
                     = CurrentVersion(cache, AUTHOR_CACHE_PREFIX, now) + 1]_vars

(***************************************************************************)
(* Claims about the list handlers, on SpecList                             *)
(***************************************************************************)
\* C8: after any sequence of completed requests, the payload of a film or
\* author list response, from the cache or freshly computed, is what the
\* live list query returns for the same query string at that moment.
C8_ListEqualsLiveQuery ==
    (last.op = "list" /\ last.prefix \in {FILM_CACHE_PREFIX, AUTHOR_CACHE_PREFIX})
        => last.payload = LiveList(last.prefix, last.q)

C10_KeyPerActorAndQuery ==
    /\ \A prefix \in Prefixes, version \in 1..MaxRequests :
          \A a1 \in Actors, a2 \in Actors, q1 \in QueryStrings, q2 \in QueryStrings :
             ListCacheKey(prefix, version, a1, q1) = ListCacheKey(prefix, version, a2, q2)
                => (a1 = a2 /\ q1 = q2)
    /\ (last.op = "list" /\ last.hit /\ last.key \in DOMAIN cache)
          => /\ cache[last.key].value.made.actor = last.actor
             /\ cache[last.key].value.made.q = last.q


(***************************************************************************)
(* Claims about an unavailable cache store, on SpecOutage                  *)
(***************************************************************************)
\* C11: when a cache call of a request raises because the store is
\* unavailable, no error of the cache layer reaches the caller: no request
\* is answered with a server error, a list request answers 200 and, when
\* not served from the store, with the result of the live list query.
C11_CacheFailsOpen ==
    /\ last.status # 500
    /\ (last.op = "list" /\ last.failAt # "")
          => /\ last.status = 200
             /\ ~last.hit => last.payload = LiveList(last.prefix, last.q)

(***************************************************************************)
(* Claims about the TMDb import, on SpecImport                             *)
(***************************************************************************)
\* the record, the answers and the outcome of the latest call of import_movie
Imported == run.call.result # ""

\* directors[0] of the credits the latest call got, when there is one
CallDirectors ==
    IF Imported /\ run.call.ext.credits.ok
    THEN SelectSeq(run.call.ext.credits.crew, LAMBDA member : member.job = "Director")
    ELSE <<>>

AuthorsWithTmdbId(id) == {a \in DOMAIN authors : authors[a].tmdb_id = id}

\* C12: there is never more than one Film per external movie id, one Author
\* per external person id and one user per username; after a call of
\* import_movie that returned a Film there is exactly one of each for the
\* record and its director, and they hold the values fetched by that call:
\* title, description and release date of the record, biography and birthday
\* of the person details, first and last name from the director's name.
C12_ReimportUpdatesInPlace ==
    /\ \A f \in DOMAIN films :
          films[f].tmdb_id # 0 => Cardinality(FilmsOfTmdb(DbRows, films[f].tmdb_id)) = 1
    /\ \A a \in DOMAIN authors :
          authors[a].tmdb_id # 0 => Cardinality(AuthorsWithTmdbId(authors[a].tmdb_id)) = 1
    /\ \A u \in DOMAIN users : Cardinality(UsersNamed(DbRows, users[u].username)) = 1
    /\ run.call.result = "film" =>
          LET rec == run.call.rec
              person == CallDirectors[1]
              details == run.call.ext.details
              parts == SplitName(person.name)
          IN  /\ FilmsOfTmdb(DbRows, rec.id) = {run.call.id}
              /\ films[run.call.id].title = rec.title
              /\ films[run.call.id].description = rec.overview
              /\ films[run.call.id].release_date = rec.release_date
              /\ Cardinality(AuthorsWithTmdbId(person.id)) = 1
              /\ Cardinality(UsersNamed(DbRows, "tmdb_" \o ToString(person.id))) = 1
              /\ \A a \in AuthorsWithTmdbId(person.id) :
                    /\ authors[a].bio = (IF details.ok THEN Bio1000(details.biography) ELSE "")
                    /\ authors[a].date_of_birth
                          = (IF details.ok THEN ParseBirthday(details.birthday) ELSE "")
                    /\ users[authors[a].user].username = "tmdb_" \o ToString(person.id)
                    /\ users[authors[a].user].first_name = parts[1]
                    /\ users[authors[a].user].last_name = parts[2]

\* a step of the model that is one call of import_movie
ImportStep == run'.imports = run.imports + 1

\* C13: a call of import_movie on a record without id, without title or
\* without release date returns None and sends no request, so no credits
\* are fetched; it leaves every Film, Author, user and file as it was, and
\* the command goes on to the next record with its count unchanged.
C13_IncompleteRecordSkipped ==
    [][(/\ ImportStep
        /\ \/ run'.call.rec.id = 0
           \/ run'.call.rec.title = ""
           \/ run'.call.rec.release_date = "")
          => /\ run'.call.result = "none"
             /\ run'.call.http = <<>>
             /\ films' = films /\ authors' = authors /\ users' = users
             /\ storage' = storage
             /\ run'.state = "running"
             /\ run'.pos = run.pos + 1
             /\ run'.count = run.count]_vars

C13_Witness ==
    /\ run.call.rec # <<>>
    /\ run.call.rec.release_date = ""
    /\ run.call.rec.id # 0 /\ run.call.rec.title # ""
    /\ run.call.result = "none"
    /\ run.state = "running"
    /\ run.pos = 1 /\ run.fetched = 2

\* C14: a call of import_movie on a record with id, title and release date
\* whose credits fetch fails, or whose credits hold no crew member with job
\* "Director", returns None and creates or changes no Film, Author or user.
C14_NoDirectorNoFilm ==
    [][(/\ ImportStep
        /\ run'.call.rec.id # 0
        /\ run'.call.rec.title # ""
        /\ run'.call.rec.release_date # ""
        /\ \/ ~run'.call.ext.credits.ok
           \/ \A n \in 1..Len(run'.call.ext.credits.crew) :
                 run'.call.ext.credits.crew[n].job # "Director")
          => /\ run'.call.result = "none"
             /\ films' = films /\ authors' = authors /\ users' = users]_vars

\* C15: no call of import_movie raises out of the command: a run is never
\* ended by an exception, and a run that has ended has processed every
\* fetched record and printed a summary whose count is the number of calls
\* of import_movie that returned a Film.
C15_RunNeverRaises ==
    /\ run.state # "raised"
    /\ run.state = "done" => /\ run.pos = run.fetched
                             /\ run.summary = run.returned

\* C16: a run whose popular-movies fetch fails or lists nothing, or that has
\* no API key, ends without an exception, without a call of import_movie
\* and with every Film, Author, user and file as it was; a run that has
\* records to import has at most `limit` of them.
C16_NoMoviesNoOpElseAtMostLimit ==
    [][/\ (run' # run /\ run'.fetch \in {"nokey", "failed", "empty"})
             => /\ run'.state = "noop"
                /\ run'.call = NoCall
                /\ films' = films /\ authors' = authors /\ users' = users
                /\ storage' = storage
       /\ run'.state = "running" => run'.fetched <= run'.limit]_vars

\* C17: a call of import_movie on a record with a poster path whose credits
\* name a director, and whose poster download ends with another status than
\* 200, with a transport error or with a storage error, returns the Film:
\* the Film of the record exists with the record's values, the director is
\* among its authors, and the command's count goes up by one.
C17_PosterFailureStillImports ==
    [][(/\ ImportStep
        /\ run'.call.rec.poster_path # ""
        /\ run'.call.ext.poster \in {"not200", "transport", "storage"})
          => /\ run'.call.result = "film"
             /\ run'.call.id \in DOMAIN films'
             /\ films'[run'.call.id].tmdb_id = run'.call.rec.id
             /\ films'[run'.call.id].title = run'.call.rec.title
             /\ films'[run'.call.id].release_date = run'.call.rec.release_date
             /\ \E a \in films'[run'.call.id].authors :
                   /\ a \in DOMAIN authors'
                   /\ \E n \in 1..Len(run'.call.ext.credits.crew) :
                         /\ run'.call.ext.credits.crew[n].job = "Director"
                         /\ run'.call.ext.credits.crew[n].id = authors'[a].tmdb_id
             /\ run'.count = run.count + 1
             /\ run'.state = "running"]_vars

C17_Witness ==
    /\ run.call.result = "film"
    /\ run.call.rec.poster_path # ""
    /\ run.call.ext.poster = "storage"
    /\ FilmsOfTmdb(DbRows, run.call.rec.id) = {run.call.id}
    /\ run.count = 2

\* the stored files of an owner: the poster files of the Film of an external
\* movie id, the photo files of the Author of an external person id
FilesOf(st, owner) == {name \in DOMAIN st : st[name].owner = owner}

Sent(request) == \E n \in 1..Len(run.call.http) : run.call.http[n] = request

\* C18: no owner ever has more than one stored file, and after a call of
\* import_movie that replaced the poster (the photo) successfully, the one
\* stored file of the Film (the Author) is the one its row refers to and
\* holds the content just downloaded.
C18_OneFilePerOwner ==
    /\ \A name \in DOMAIN storage :
          Cardinality(FilesOf(storage, storage[name].owner)) = 1
    /\ (run.call.result = "film" /\ Sent("poster") /\ run.call.ext.poster = "ok")
          => /\ FilesOf(storage, <<"film", run.call.rec.id>>) = {films[run.call.id].poster}
             /\ storage[films[run.call.id].poster].content = run.call.rec.poster_path
    /\ (run.call.result = "film" /\ Sent("photo") /\ run.call.ext.photo = "ok")
          => \A a \in AuthorsWithTmdbId(CallDirectors[1].id) :
                FilesOf(storage, <<"author", CallDirectors[1].id>>) = {authors[a].photo}

\* the stored files of an owner with their content
StoredFor(st, owner) == [name \in FilesOf(st, owner) |-> st[name]]

\* C19: a call of import_movie whose poster (photo) download ends with
\* another status than 200 or with a transport error leaves the stored
\* files of the Film (the Author) and the file its row refers to as they
\* were, a row created by the call referring to no file; the failed download
\* does not make the call raise.
C19_FailedDownloadChangesNothing ==
    [][/\ (/\ ImportStep
           /\ \E n \in 1..Len(run'.call.http) : run'.call.http[n] = "poster"
           /\ run'.call.ext.poster \in {"not200", "transport"})
             => /\ StoredFor(storage', <<"film", run'.call.rec.id>>)
                      = StoredFor(storage, <<"film", run'.call.rec.id>>)
                /\ \A f \in DOMAIN films' :
                      films'[f].tmdb_id = run'.call.rec.id
                         => films'[f].poster
                               = (IF f \in DOMAIN films THEN films[f].poster ELSE "")
                /\ run'.call.result = "film"
       /\ (/\ ImportStep
           /\ \E n \in 1..Len(run'.call.http) : run'.call.http[n] = "photo"
           /\ run'.call.ext.photo \in {"not200", "transport"})
             => \A m \in 1..Len(run'.call.ext.credits.crew) :
                   LET person == run'.call.ext.credits.crew[m]
                   IN  /\ StoredFor(storage', <<"author", person.id>>)
                             = StoredFor(storage, <<"author", person.id>>)
                       /\ \A a \in DOMAIN authors' :
                             authors'[a].tmdb_id = person.id
                                => authors'[a].photo
                                      = (IF a \in DOMAIN authors THEN authors[a].photo
                                         ELSE "")
                       /\ IsDate(run'.call.rec.release_date)
                             => run'.call.result = "film"]_vars

C19_Witness ==
    /\ run.call.result = "film"
    /\ Sent("poster") /\ Sent("photo")
    /\ run.call.ext.poster = "not200"
    /\ run.call.ext.photo = "transport"
    /\ films[run.call.id].poster \in DOMAIN storage
    /\ \E a \in films[run.call.id].authors : authors[a].photo \in DOMAIN storage

\* C20: a call of import_movie that does not return a Film leaves the user,
\* Author and Film rows as they were, also when it fails after the Author
\* was written: no user or Author of the record's director is left behind.
C20_ImportIsAllOrNothing ==
    [][(ImportStep /\ run'.call.result # "film")
          => /\ users' = users
             /\ authors' = authors
             /\ films' = films]_vars

C20_Witness ==
    /\ run.call.result = "raised"
    /\ Sent("person")
    /\ CallDirectors # <<>>
    /\ AuthorsWithTmdbId(CallDirectors[1].id) = {}
    /\ UsersNamed(DbRows, "tmdb_" \o ToString(CallDirectors[1].id)) = {}

\* C22: a call of import_movie whose person-details fetch failed, for a
\* director with id and name, is not skipped: the photo is requested exactly
\* when the director's crew entry has a profile path, and when the record's
\* release date is a date the call returns the Film, whose director has an
\* empty biography, no birth date and, after a successful download, the
\* image of the crew entry's profile path as photo.
C22_DetailsFailureStillImports ==
    [][(/\ ImportStep
        /\ \E n \in 1..Len(run'.call.http) : run'.call.http[n] = "person"
        /\ ~run'.call.ext.details.ok)
          => LET person == SelectSeq(run'.call.ext.credits.crew,
                                     LAMBDA member : member.job = "Director")[1]
                 photoSent == \E n \in 1..Len(run'.call.http) :
                                 run'.call.http[n] = "photo"
             IN  /\ run'.call.result # "none"
                 /\ photoSent <=> person.profile_path # ""
                 /\ IsDate(run'.call.rec.release_date) =>
                       /\ run'.call.result = "film"
                       /\ films'[run'.call.id].tmdb_id = run'.call.rec.id
                       /\ \E a \in films'[run'.call.id].authors :
                             /\ authors'[a].tmdb_id = person.id
                             /\ authors'[a].bio = ""
                             /\ authors'[a].date_of_birth = ""
                             /\ (photoSent /\ run'.call.ext.photo = "ok")
                                   => /\ authors'[a].photo \in DOMAIN storage'
                                      /\ storage'[authors'[a].photo].content
                                            = person.profile_path]_vars

C22_Witness ==
    /\ run.call.result = "film"
    /\ Sent("person") /\ Sent("photo")
    /\ ~run.call.ext.details.ok
    /\ run.call.ext.photo = "ok"
    /\ \E a \in films[run.call.id].authors :
          /\ authors[a].tmdb_id = CallDirectors[1].id
          /\ authors[a].bio = "" /\ authors[a].date_of_birth = ""
          /\ storage[authors[a].photo].content = CallDirectors[1].profile_path

\* C29: after a call of import_movie that returned the Film and replaced,
\* or tried to replace, the poster (the photo), the Film's poster (the
\* Author's photo) is empty or names a stored file, also when storing the
\* new file failed.
C29_NoDanglingReference ==
    [][(ImportStep /\ run'.call.result = "film")
          => /\ (\E n \in 1..Len(run'.call.http) : run'.call.http[n] = "poster")
                   => \/ films'[run'.call.id].poster = ""
                      \/ films'[run'.call.id].poster \in DOMAIN storage'
             /\ (\E n \in 1..Len(run'.call.http) : run'.call.http[n] = "photo")
                   => \A a \in films'[run'.call.id].authors :
                         \/ authors'[a].photo = ""
                         \/ authors'[a].photo \in DOMAIN storage']_vars

(***************************************************************************)
(* Claims about the permissions of the REST handlers, on SpecApi           *)
(***************************************************************************)
\* C23: a request of an authenticated actor without spectator profile to
\* create a FilmReview or an AuthorReview is answered 403 SPECTATOR_REQUIRED,
\* writes nothing and calls no increment_version; every stored review
\* belongs to a spectator profile.
C23_NonSpectatorRefused ==
    /\ (/\ last.op \in {"film_reviews.create", "author_reviews.create"}
        /\ IsAuthenticated(last.actor)
        /\ ~HasSpectatorProfile(last.actor))
          => /\ last.status = 403
             /\ last.code = "SPECTATOR_REQUIRED"
             /\ last.effects = <<>>
    /\ \A k \in DOMAIN filmReviews \cup DOMAIN authorReviews : HasSpectatorProfile(k[2])

\* C24: a request to the film or author views by an actor that is not
\* staff leaves every Film and Author as it was: with an unsafe method
\* (create, update, delete, archive) it is refused, 401 for an anonymous and
\* 403 for another actor, and the rows and the cache store are as before;
\* a list request is answered 200 for every actor.
C24_OnlyStaffWrites ==
    [][(nreq' = nreq + 1)
          => /\ last'.op = "list" => (last'.status = 200 /\ dbVars' = dbVars)
             /\ (last'.actor = Anon \/ ~users[last'.actor].is_staff)
                   => /\ films' = films
                      /\ authors' = authors
                      /\ last'.op # "list"
                            => /\ last'.status = Refused(last'.actor)
                               /\ last'.effects = <<>>
                               /\ dbVars' = dbVars
                               /\ cache' = cache]_vars

C24_Witness ==
    /\ last.op = "films.destroy"
    /\ last.actor = SpectatorUser
    /\ last.status = 403
    /\ last.target \in DOMAIN films
    /\ films[last.target].status = "archived"
    /\ VersionKey(FILM_CACHE_PREFIX) \in DOMAIN cache

(***************************************************************************)
(* Claims about the director of an imported movie, on SpecCrew             *)
(***************************************************************************)
\* the position of the first crew entry with job "Director"
FirstDirector(crew) ==
    CHOOSE n \in 1..Len(crew) :
        /\ crew[n].job = "Director"
        /\ \A j \in 1..(n - 1) : crew[j].job # "Director"

\* C25: a call of import_movie on a complete record whose credits hold a
\* crew entry with job "Director" takes the first such entry and no other:
\* when that entry has an id and a name the call returns the Film with the
\* Author of that entry among its authors, and every author the call
\* creates or adds to the film is that one; when it lacks the id or the
\* name the call returns None and changes no row, whatever follows in the
\* crew.
C25_FirstDirectorOnly ==
    [][(/\ ImportStep
        /\ RequiredGiven(run'.call.rec)
        /\ run'.call.ext.credits.ok
        /\ \E n \in 1..Len(run'.call.ext.credits.crew) :
              run'.call.ext.credits.crew[n].job = "Director")
          => LET crew == run'.call.ext.credits.crew
                 first == crew[FirstDirector(crew)]
                 before == IF run'.call.id \in DOMAIN films
                           THEN films[run'.call.id].authors ELSE {}
             IN  IF first.id = 0 \/ first.name = ""
                 THEN /\ run'.call.result = "none"
                      /\ users' = users /\ authors' = authors /\ films' = films
                 ELSE /\ run'.call.result = "film"
                      /\ \E a \in films'[run'.call.id].authors :
                            authors'[a].tmdb_id = first.id
                      /\ \A a \in films'[run'.call.id].authors \ before :
                            authors'[a].tmdb_id = first.id
                      /\ \A a \in DOMAIN authors' \ DOMAIN authors :
                            authors'[a].tmdb_id = first.id]_vars

C27_NoneWritesNothing ==
    [][(ImportStep /\ run'.call.result = "none")
          => /\ users' = users
             /\ authors' = authors
             /\ films' = films
             /\ nextId' = nextId
             /\ storage' = storage
             /\ run'.call.http \in {<<>>, <<"credits">>}]_vars

\* the first director has an id but no name; a valid director follows, and
\* an earlier call has stored an Author and a photo
C27_Witness ==
    /\ run.call.result = "none"
    /\ Len(CallDirectors) = 2
    /\ CallDirectors[1].id = 7 /\ CallDirectors[1].name = ""
    /\ AuthorsWithTmdbId(7) # {}
    /\ AuthorsWithTmdbId(8) = {}
    /\ FilesOf(storage, <<"author", 7>>) # {}

\* C28: after a call of import_movie that returned a Film, the one Film of
\* the record's external id has status "published", evaluation "G" and
\* source "TMDB", whatever it had before: a film the admin archived or
\* rated "R" is published and rated "G" again.
C28_ImportResetsStatus ==
    [][(ImportStep /\ run'.call.result = "film")
          => /\ FilmsOfTmdb(Rows(users', authors', films', nextId'), run'.call.rec.id)
                   = {run'.call.id}
             /\ films'[run'.call.id].status = "published"
             /\ films'[run'.call.id].evaluation = "G"
             /\ films'[run'.call.id].source = "TMDB"]_vars

\* the admin rated the film "R" and then archived it, and the import that
\* followed set it back
C28_Witness ==
    /\ run.call.result = "film"
    /\ run.imports = 2
    /\ nreq = 2
    /\ last.op = "films.archive"
    /\ last.status = 200
    /\ last.target = run.call.id
    /\ films[run.call.id].status = "published"
    /\ films[run.call.id].evaluation = "G"

\* the number of characters of the biographies of the model
BioLength(bio) ==
    CASE bio = "" -> 0
      [] bio = "x" -> 1
      [] bio = "bio of 1000 characters" -> 1000
      [] bio = "bio of 1001 characters" -> 1001

\* C30: after a call of import_movie that returned the Film, the Author of
\* the director has the empty biography when the person details failed or
\* hold no biography, and no birth date when they failed or hold no
\* birthday, whatever the Author had before; its biography has at most
\* 1000 characters.
C30_ReimportOverwritesDetails ==
    [][(ImportStep /\ run'.call.result = "film")
          => LET crew == run'.call.ext.credits.crew
                 details == run'.call.ext.details
             IN  \A a \in DOMAIN authors' :
                    authors'[a].tmdb_id = crew[FirstDirector(crew)].id
                       => /\ (~details.ok \/ details.biography = "")
                                => authors'[a].bio = ""
                          /\ (~details.ok \/ details.birthday = "")
                                => authors'[a].date_of_birth = ""
                          /\ BioLength(authors'[a].bio) <= 1000
                          /\ a \in films'[run'.call.id].authors]_vars

\* the second import of the director, with failed person details and a
\* failed photo download, after a first that stored the photo
C30_Witness ==
    /\ run.call.result = "film"
    /\ run.imports = 2
    /\ ~run.call.ext.details.ok
    /\ Sent("photo") /\ run.call.ext.photo = "transport"
    /\ \E a \in AuthorsWithTmdbId(CallDirectors[1].id) :
          /\ authors[a].bio = ""
          /\ authors[a].date_of_birth = ""
          /\ authors[a].photo # ""

(***************************************************************************)
(* Claims about the requests of the import, on SpecWait                    *)
(***************************************************************************)
\* C21: every request the import sends carries a timeout: a run never waits
\* on a request that no timeout ends, so that it reaches its summary also
\* when the upstream never answers.
C21_EveryRequestHasTimeout ==
    run.wait.request # "" => run.wait.timeout > 0

====
